---- MODULE Spec2Model ----
(***************************************************************************)
(* A model of th-strava-sensor.                                            *)
(*                                                                         *)
(* Spec         the Strava subscription manager                            *)
(*              (strava/webhook.py, StravaWebhookManager): concurrent      *)
(*              ensure_subscription / delete_subscription coroutines on    *)
(*              one asyncio event loop, the manager lock, the retry helper *)
(*              and the provider's push-subscription API.                  *)
(* SpecHandler  the webhook HTTP handler (webhook/server.py,               *)
(*              WebhookHandler.do_GET / do_POST) served by a               *)
(*              socketserver.TCPServer, one request at a time.             *)
(* SpecApp      the FastAPI application (webhook_server.py): lifespan, the *)
(*              registration task, verify_subscription, healthz, shutdown, *)
(*              on                                                         *)
(*              the subscription manager; SpecAppFair adds weak fairness   *)
(*              of the application's own steps.                            *)
(* SpecProcessor  webhook-triggered processing (webhook/processor.py and   *)
(*              webhook_server.handle_event / _process_activity), one run  *)
(*              at a time.                                                 *)
(* SpecPublish  MQTTClient.publish (mqtt/mqtt.py); SpecPublishFair adds    *)
(*              weak fairness of the steps of a call.                      *)
(* SpecDevice   DeviceStatus (fitfile/model.py): derivation of one record  *)
(*              and publish_on_mqtt; SpecDeviceFair adds weak fairness of  *)
(*              the rest of publish_on_mqtt.                               *)
(* SpecFitFile  FitFile (fitfile/fitfile.py): validate_activity_messages   *)
(*              and get_devices_status.                                    *)
(* SpecSource   source resolution (source/base.py, cli.py, sources.py) and *)
(*              read_activity of the sources (source/strava.py, garmin.py, *)
(*              file.py).                                                  *)
(* SpecFind     GarminSource.find_activity (source/garmin.py).             *)
(* SpecServer   WebhookServer.start / stop (webhook/server.py).            *)
(***************************************************************************)
EXTENDS Integers, Sequences, FiniteSets, TLC

\* ------------------------------------------------------------------ bounds
NumCalls == 2
MaxId == 1
MaxAttempts == 3
MaxSources == 2
MaxDevices == 2
MaxRetries == 4

\* --------------------------------------------------------------- constants
\* Python's None for an int | None field; provider ids are naturals here.
None == -1
\* STRAVA_SUBSCRIPTION_RETRY_DELAY default, in seconds.
base_delay == 1

Calls == 1..NumCalls
Ids == 0..MaxId
\* A configuration variable holds "" when it is unset or empty (os.environ.get
\* gives None or '', both falsy).

VARIABLES
    \* ---- StravaWebhookManager fields (strava/webhook.py:23-30)
    client_id, client_secret, callback_url, verify_token,
    subscription_id,        \* self._subscription_id
    lock_holder,            \* self._lock: the call holding it, 0 when free
    lock_waiters,           \* self._lock: FIFO of calls waiting in acquire()
    attempts,               \* STRAVA_SUBSCRIPTION_RETRIES
    \* ---- the provider's push-subscription API
    provider_subs,          \* the subscriptions the provider holds, in list order
    \* ---- one record per ensure_subscription / delete_subscription call
    call,
    \* ---- history
    last_returned,          \* id returned by an ensure call since the last delete body
    \* ---- WebhookHandler (webhook/server.py)
    h_pc, h_req, h_status, h_body, h_cb_calls, h_cb_event, h_sent,
    \* ---- the FastAPI application (webhook_server.py)
    a_proc,                 \* the server process: starting, serving, stopping, stopped
    a_task,                 \* the task created for _register_webhook
    a_reply,                \* the response verify_subscription is sending
    env_verify_token,       \* os.environ.get('STRAVA_VERIFY_TOKEN')
    \* ---- one run of webhook-triggered processing
    p_pc, p_run,
    p_reads,                \* the read_activity calls made: source index and URI
    p_decoded,              \* the contents handed to FitFile
    p_devices,              \* the device statuses derived
    p_published,            \* the device statuses published, in order
    p_failed,               \* the stage at which the run failed, "" when none
    e_delivery,             \* the POST delivery handle_event was called for
    e_response,             \* what handle_event answered
    \* ---- one call of MQTTClient.publish (mqtt/mqtt.py)
    m_pc, m_retries,
    m_attempt,              \* the loop variable `attempt`, from 0
    m_outcomes,             \* what each attempt made so far met
    m_sleeps,               \* the time.sleep calls made, in seconds
    m_sent,                 \* the messages handed to the transport's publish
    m_result,               \* "True" / "False" once returned
    \* ---- one DeviceStatus: derivation and publish_on_mqtt (fitfile/model.py)
    d_pc,
    d_record,               \* the device-information record handed to model_validate
    d_status,               \* the DeviceStatus derived from it
    d_calls,                \* the mqtt_client.publish calls made: topic and payload
    \* ---- one FitFile (fitfile/fitfile.py)
    f_pc,
    f_messages,             \* self.messages: the required message groups
    f_error,                \* what validate_activity_messages raised
    f_device_info,          \* self.messages['device_info_mesgs']
    f_result,               \* what get_devices_status returned or raised
    \* ---- source resolution and StravaSource.read_activity (source/, sources.py)
    s_pc,
    s_sources,              \* the list initialize_sources returned
    s_uri,                  \* the URI being resolved or read
    s_resolved,             \* index of the source resolution returned, 0 for none
    s_next,                 \* position of the loop over downstream_sources
    s_finds,                \* the find_activity calls made: index of the source
    s_reads,                \* the downstream read_activity calls made
    s_result,               \* what read_activity returned or raised
    \* ---- one GarminSource.find_activity call (source/garmin.py)
    g_pc,
    g_target,               \* date, elapsed_time_in_s and distance_in_m asked for
    g_listing,              \* what get_activities_by_date returned, in order
    g_result,               \* position in the listing of the activity returned, 0 for None
    \* ---- one WebhookServer (webhook/server.py:143-197)
    w_server,               \* self.server is not None
    w_thread,               \* self.thread is not None
    w_history               \* the calls made so far: operation and outcome

mgr_vars == <<client_id, client_secret, callback_url, verify_token, subscription_id,
              lock_holder, lock_waiters, attempts, provider_subs, call,
              last_returned>>
handler_vars == <<h_pc, h_req, h_status, h_body, h_cb_calls, h_cb_event, h_sent>>
app_vars == <<a_proc, a_task, a_reply, env_verify_token>>
ingress_vars == <<e_delivery, e_response>>
proc_vars == <<p_pc, p_run, p_reads, p_decoded, p_devices, p_published, p_failed,
               ingress_vars>>
publish_vars == <<m_pc, m_retries, m_attempt, m_outcomes, m_sleeps, m_sent, m_result>>
device_vars == <<d_pc, d_record, d_status, d_calls>>
fit_vars == <<f_pc, f_messages, f_error, f_device_info, f_result>>
src_vars == <<s_pc, s_sources, s_uri, s_resolved, s_next, s_finds, s_reads, s_result>>
find_vars == <<g_pc, g_target, g_listing, g_result>>
server_vars == <<w_server, w_thread, w_history>>
fitfile_parts == <<device_vars, fit_vars, src_vars, find_vars, server_vars>>
vars == <<mgr_vars, handler_vars, app_vars, proc_vars, publish_vars, fitfile_parts>>
\* What the actions of each part leave alone.
outside_mgr == <<handler_vars, app_vars, proc_vars, publish_vars, fitfile_parts>>
outside_handler == <<mgr_vars, app_vars, proc_vars, publish_vars, fitfile_parts>>
outside_app == <<handler_vars, proc_vars, publish_vars, fitfile_parts>>
outside_proc == <<mgr_vars, handler_vars, app_vars, publish_vars, fitfile_parts>>
outside_publish == <<mgr_vars, handler_vars, app_vars, proc_vars, fitfile_parts>>
services == <<mgr_vars, handler_vars, app_vars, proc_vars, publish_vars>>
outside_device == <<services, fit_vars, src_vars, find_vars, server_vars>>
outside_fit == <<services, device_vars, src_vars, find_vars, server_vars>>
outside_src == <<services, device_vars, fit_vars, find_vars, server_vars>>
outside_find == <<services, device_vars, fit_vars, src_vars, server_vars>>
outside_server == <<services, device_vars, fit_vars, src_vars, find_vars>>

\* =========================================================================
\*  Subscription manager
\* =========================================================================

\* The configuration read once in __init__ and _retry; no call changes it.
mgr_config == <<client_id, client_secret, callback_url, attempts>>

\* Python truthiness of an int | None value: None and 0 are falsy.
Truthy(v) == v # None /\ v # 0

\* Python truthiness of a str | None value.
TruthyStr(s) == s # ""

\* A call that did not wait for the lock has no predecessor on record.
NoHolder == [kind |-> "none", pc |-> "idle", result |-> None, nCreate |-> 0,
             nCreateFailed |-> 0, nOthers |-> 0, emptyAtStart |-> FALSE]

\* A call slot that holds no call: the call has not started, or its caller has
\* dropped the finished coroutine. The fields after `result` are history.
IdleCall == [kind |-> "none", pc |-> "idle", attempt |-> 0, result |-> None,
             nList |-> 0, nCreate |-> 0, nDelete |-> 0, nCreateFailed |-> 0,
             sleeps |-> <<>>, waited |-> FALSE, pred |-> NoHolder, nOthers |-> 0,
             cacheAtAcquire |-> None, listed |-> FALSE, matchId |-> None,
             emptyAtStart |-> FALSE, expect |-> None,
             cacheAtEnd |-> None, deleteOutcome |-> "none", createToken |-> ""]

Done(c) == call[c].pc \in {"returned", "raised"}
InProgress(c) == call[c].pc \notin {"idle", "returned", "raised"}

\* webhook.py:46 -- not (client_id and client_secret and callback_url)
MissingConfig_never == FALSE
MissingConfig == ~(TruthyStr(client_id) /\ TruthyStr(client_secret) /\ TruthyStr(callback_url))

\* webhook.py:121-124 -- the id of the first listed subscription whose
\* callback_url equals the manager's, None when there is none. int(sub['id'])
\* leaves an integer id as it is.
RECURSIVE FindExisting(_)
FindExisting(subs) ==
    IF subs = <<>> THEN None
    ELSE IF Head(subs).callback_url = callback_url THEN Head(subs).id
    ELSE FindExisting(Tail(subs))

\* webhook.py:55 -- if self._subscription_id is not None
CacheHit_never == FALSE
CacheHit == subscription_id # None

\* webhook.py:58 -- if existing:
UseExisting(existing) == Truthy(existing)

\* webhook.py:68 -- if not self._subscription_id: return
NothingToDelete == ~Truthy(subscription_id)

\* webhook.py:62 -- self._subscription_id after a create request that returned id
CachedAfterCreate_none(id) == None
CachedAfterCreate(id) == id

\* webhook.py:134 -- the verify_token field of the create request
CreateToken == verify_token

\* webhook.py:101 -- sleep_for = base_delay * (2 ** (attempt - 1))
SleepFor_late(attempt) == base_delay * (2 ^ attempt)
SleepFor(attempt) == base_delay * (2 ^ (attempt - 1))

\* asyncio.Lock.acquire takes a free lock without waiting.
LockFree == lock_holder = 0

\* asyncio.Lock.release: wake the first waiter, which then owns the lock.
ReleaseLock ==
    IF lock_waiters = <<>>
    THEN lock_holder' = 0 /\ UNCHANGED lock_waiters
    ELSE lock_holder' = Head(lock_waiters) /\ lock_waiters' = Tail(lock_waiters)

\* History: what the call with record r, which ends with outcome pc and releases
\* the lock, leaves on record for the waiter that takes the lock from it.
Summary(r, pc, result) ==
    [kind |-> r.kind, pc |-> pc, result |-> result, nCreate |-> r.nCreate,
     nCreateFailed |-> r.nCreateFailed, nOthers |-> r.nOthers,
     emptyAtStart |-> r.emptyAtStart]

\* The call records after call c, holding the lock, has ended with record r
\* (outcome in r.pc, result in r.result): the first waiter records c as its
\* predecessor.
Handover(calls, c, r) ==
    LET ended == [calls EXCEPT ![c] = r]
    IN IF lock_waiters = <<>> THEN ended
       ELSE [ended EXCEPT ![Head(lock_waiters)].pred = Summary(r, r.pc, r.result)]

\* The record of a call when it ends with outcome pc (returned / raised).
Ended(r, pc, result, cacheEnd) ==
    [r EXCEPT !.pc = pc, !.result = result, !.cacheAtEnd = cacheEnd]

\* The record of a call when it acquires the lock.
Acquired(r) == [r EXCEPT !.cacheAtAcquire = subscription_id]

\* webhook.py:54-57 -- the body of ensure_subscription once the lock is held,
\* up to its first await: a cache hit returns, otherwise the list request is sent.
\* r is the call's record on acquiring the lock; free tells whether the lock was
\* taken without waiting (then no waiter can exist).
EnsureLocked(c, r, free) ==
    /\ IF CacheHit
       THEN /\ call' = Handover(call, c, Ended(r, "returned", subscription_id, subscription_id))
            /\ last_returned' = subscription_id
            /\ IF free THEN UNCHANGED <<lock_holder, lock_waiters>> ELSE ReleaseLock
       ELSE /\ call' = [call EXCEPT ![c] = [r EXCEPT !.pc = "list", !.attempt = 1, !.nList = 1]]
            /\ lock_holder' = c
            /\ UNCHANGED <<lock_waiters, last_returned>>
    /\ UNCHANGED <<subscription_id, provider_subs>>

\* webhook.py:67-75 -- the body of delete_subscription once the lock is held,
\* up to its first await.
DeleteLocked(c, r, free) ==
    /\ last_returned' = None
    /\ LET \* history: a delete body has run while the other calls were in progress
           seen == [d \in Calls |-> IF InProgress(d) THEN [call[d] EXCEPT !.expect = None]
                                    ELSE call[d]]
       IN IF NothingToDelete
          THEN /\ call' = Handover(seen, c, Ended(r, "returned", None, subscription_id))
               /\ IF free THEN UNCHANGED <<lock_holder, lock_waiters>> ELSE ReleaseLock
          ELSE /\ call' = [seen EXCEPT ![c] = [r EXCEPT !.pc = "delete", !.nDelete = 1]]
               /\ lock_holder' = c
               /\ UNCHANGED lock_waiters
    /\ UNCHANGED <<subscription_id, provider_subs>>

\* A finished call is dropped by its caller (Forget) before the event loop runs
\* the next step of any call.
NoneDone == \A d \in Calls : ~Done(d)

\* A new call takes the lowest free slot (the slots are interchangeable).
MayStart(c) ==
    /\ NoneDone
    /\ call[c].pc = "idle"
    /\ \A d \in 1..(c - 1) : call[d].pc # "idle"

\* The record of a call when it is made; the fields set are history.
Started(c, kind) ==
    [call[c] EXCEPT !.kind = kind,
                    !.nOthers = Cardinality({d \in Calls : InProgress(d)}),
                    !.emptyAtStart = (subscription_id = None /\ FindExisting(provider_subs) = None),
                    !.expect = last_returned]

\* A call finds the lock taken and waits in asyncio.Lock.acquire.
WaitForLock(c, kind) ==
    /\ lock_waiters' = Append(lock_waiters, c)
    /\ call' = [call EXCEPT ![c] = [Started(c, kind) EXCEPT !.pc = "waitlock", !.waited = TRUE]]
    /\ UNCHANGED <<subscription_id, lock_holder, provider_subs, last_returned>>

\* webhook.py:40-57 -- ensure_subscription from its call to its first await.
EnsureStart(c) ==
    /\ MayStart(c)
    /\ IF MissingConfig
       THEN /\ call' = [call EXCEPT ![c] = Ended(Started(c, "ensure"), "raised", None, subscription_id)]
            /\ UNCHANGED <<verify_token, subscription_id, lock_holder, lock_waiters,
                           provider_subs, last_returned>>
       ELSE /\ verify_token' = IF TruthyStr(verify_token) THEN verify_token ELSE "generated"
            /\ IF LockFree
               THEN EnsureLocked(c, Acquired(Started(c, "ensure")), TRUE)
               ELSE WaitForLock(c, "ensure")
    /\ UNCHANGED mgr_config

\* webhook.py:66-75 -- delete_subscription from its call to its first await.
DeleteStart(c) ==
    /\ MayStart(c)
    /\ IF LockFree
       THEN DeleteLocked(c, Acquired(Started(c, "delete")), TRUE)
       ELSE WaitForLock(c, "delete")
    /\ UNCHANGED <<mgr_config, verify_token>>

\* A waiting call is resumed holding the lock (async with self._lock).
LockGranted(c) ==
    /\ NoneDone
    /\ call[c].pc = "waitlock"
    /\ lock_holder = c
    /\ IF call[c].kind = "ensure"
       THEN EnsureLocked(c, Acquired(call[c]), FALSE)
       ELSE DeleteLocked(c, Acquired(call[c]), FALSE)
    /\ UNCHANGED <<mgr_config, verify_token>>

\* webhook.py:97-111 -- _retry after a failed attempt of the request `what`
\* ("list" / "create"): the last attempt raises RuntimeError out of
\* ensure_subscription (async with releases the lock), an earlier one sleeps.
RetryFailed(c, r, what) ==
    IF r.attempt = attempts
    THEN /\ call' = Handover(call, c, Ended(r, "raised", None, subscription_id))
         /\ ReleaseLock
    ELSE /\ call' = [call EXCEPT ![c] =
                [r EXCEPT !.pc = what \o "_sleep", !.sleeps = Append(@, SleepFor(r.attempt))]]
         /\ UNCHANGED <<lock_holder, lock_waiters>>

\* webhook.py:57-62, 113-126 -- the list request of call c is answered.
ListOk(c) ==
    /\ NoneDone
    /\ call[c].pc = "list"
    /\ LET existing == FindExisting(provider_subs)
           r == [call[c] EXCEPT !.listed = TRUE, !.matchId = existing]
       IN IF UseExisting(existing)
          THEN /\ subscription_id' = existing
               /\ call' = Handover(call, c, Ended(r, "returned", existing, existing))
               /\ last_returned' = existing
               /\ ReleaseLock
          ELSE \* webhook.py:62 -- the create request is sent
               /\ call' = [call EXCEPT ![c] = [r EXCEPT !.pc = "create", !.attempt = 1,
                                                        !.nCreate = @ + 1,
                                                        !.createToken = CreateToken]]
               /\ UNCHANGED <<subscription_id, last_returned, lock_holder, lock_waiters>>
    /\ UNCHANGED <<mgr_config, verify_token, provider_subs>>

\* The list request fails (transport error, or raise_for_status on a 4xx / 5xx).
ListFail(c) ==
    /\ NoneDone
    /\ call[c].pc = "list"
    /\ RetryFailed(c, call[c], "list")
    /\ UNCHANGED <<mgr_config, verify_token, subscription_id, provider_subs, last_returned>>

\* webhook.py:62-64, 128-147 -- the create request of call c succeeds: the
\* provider stores a subscription under an id it holds no subscription for.
CreateOk(c) ==
    /\ NoneDone
    /\ call[c].pc = "create"
    /\ \E id \in Ids \ {provider_subs[i].id : i \in DOMAIN provider_subs} :
        /\ provider_subs' = Append(provider_subs, [id |-> id, callback_url |-> callback_url])
        /\ subscription_id' = CachedAfterCreate(id)
        \* webhook.py:64 returns self._subscription_id
        /\ call' = Handover(call, c, Ended(call[c], "returned", CachedAfterCreate(id),
                                           CachedAfterCreate(id)))
        /\ last_returned' = CachedAfterCreate(id)
    /\ ReleaseLock
    /\ UNCHANGED <<mgr_config, verify_token>>

\* The create request fails (status >= 400, or a transport error).
CreateFail(c) ==
    /\ NoneDone
    /\ call[c].pc = "create"
    /\ RetryFailed(c, [call[c] EXCEPT !.nCreateFailed = @ + 1], "create")
    /\ UNCHANGED <<mgr_config, verify_token, subscription_id, provider_subs, last_returned>>

\* webhook.py:94, 110 -- asyncio.sleep ends and the next attempt is sent.
SleepDone(c) ==
    /\ NoneDone
    /\ call[c].pc \in {"list_sleep", "create_sleep"}
    /\ call' = [call EXCEPT ![c] =
            IF call[c].pc = "list_sleep"
            THEN [call[c] EXCEPT !.pc = "list", !.attempt = @ + 1, !.nList = @ + 1]
            ELSE [call[c] EXCEPT !.pc = "create", !.attempt = @ + 1, !.nCreate = @ + 1,
                                 !.createToken = CreateToken]]
    /\ UNCHANGED <<mgr_config, verify_token, subscription_id, lock_holder, lock_waiters,
                   provider_subs, last_returned>>

\* The provider's subscriptions without the one of this id.
Without(subs, id) == SelectSeq(subs, LAMBDA s : s.id # id)
Holds(subs, id) == \E i \in DOMAIN subs : subs[i].id = id

\* The ways the provider's delete request can end: a status, or a transport
\* failure after which the provider has or has not removed the subscription.
DeleteOutcomes == {"200", "204", "404", "500", "exception", "exception_removed"}

\* webhook.py:76, 84, 87 -- what delete_subscription leaves in the cache for an
\* outcome of the delete request: finally clears it in every case.
CacheAfterDelete(out) == None

\* webhook.py:71-87 -- the delete request of call c ends: 200 / 204 when the
\* provider removed the subscription, 404 when it holds none with that id, 500
\* with nothing removed, or a transport failure. Nothing is raised.
DeleteEnds(c) ==
    /\ NoneDone
    /\ call[c].pc = "delete"
    /\ \E out \in DeleteOutcomes :
        /\ out \in {"200", "204"} => Holds(provider_subs, subscription_id)
        /\ out = "404" => ~Holds(provider_subs, subscription_id)
        /\ provider_subs' = IF out \in {"200", "204", "exception_removed"}
                            THEN Without(provider_subs, subscription_id)
                            ELSE provider_subs
        /\ subscription_id' = CacheAfterDelete(out)
        /\ call' = Handover(call, c, [Ended(call[c], "returned", None, CacheAfterDelete(out))
                                          EXCEPT !.deleteOutcome = out])
    /\ ReleaseLock
    /\ UNCHANGED <<mgr_config, verify_token, last_returned>>

\* The caller drops a finished call; its slot is free for the next call.
Forget(c) ==
    /\ Done(c)
    /\ call' = [call EXCEPT ![c] = IdleCall]
    /\ UNCHANGED <<mgr_config, verify_token, subscription_id, lock_holder, lock_waiters,
                   provider_subs, last_returned>>

\* The provider's initial subscriptions: none, one for the manager's callback
\* URL (left by an earlier process) under any id, or one for another URL.
InitialSubs ==
    {<<>>, <<[id |-> MaxId, callback_url |-> "other"]>>}
        \cup {<<[id |-> i, callback_url |-> "cb"]>> : i \in Ids}

MgrInit ==
    /\ client_id \in {"", "id"}
    /\ client_secret \in {"", "secret"}
    /\ callback_url \in {"", "cb"}
    /\ verify_token \in {"", "env"}
    /\ subscription_id = None
    /\ lock_holder = 0
    /\ lock_waiters = <<>>
    /\ attempts \in {1, MaxAttempts}
    /\ provider_subs \in InitialSubs
    /\ call = [c \in Calls |-> IdleCall]
    /\ last_returned = None

\* =========================================================================
\*  Webhook HTTP handler (webhook/server.py)
\* =========================================================================

\* WebhookServer configuration (server.py:146-150, tests/test_webhook.py:87-88)
ConfiguredVerifyToken == "test_token"
ConfiguredClientSecret == "test_secret"

\* ---- JSON values of a request body, tagged with their JSON type.  A numeric
\* string is a JSON string holding the decimal digits of n.
JInt(n) == [t |-> "int", n |-> n, s |-> ""]
JNumStr(n) == [t |-> "numstr", n |-> n, s |-> ""]
JStr(s) == [t |-> "str", n |-> 0, s |-> s]
JMissing == [t |-> "missing", n |-> 0, s |-> ""]

\* ---- Request bodies (raw bytes), by what decoding them gives:
\*   empty      no bytes
\*   not_utf8   bytes that are not UTF-8
\*   malformed  UTF-8 text that is not JSON
\*   array      JSON, but not an object
\*   object     a JSON object with the fields given; owner_id, subscription_id
\*              and event_time are integers when rest = "ok", absent otherwise
Body(kind, ot, oid, at, upd, rest) ==
    [kind |-> kind, object_type |-> ot, object_id |-> oid, aspect_type |-> at,
     updates |-> upd, rest |-> rest]
PlainBody(kind) == Body(kind, JMissing, JMissing, JMissing, "absent", "absent")
EmptyBody == PlainBody("empty")
ObjectBodies ==
    {Body("object", ot, oid, at, upd, rest) :
        ot \in {JStr("activity"), JStr("athlete"), JInt(1), JMissing},
        oid \in {JInt(7), JNumStr(7), JStr("abc"), JMissing},
        at \in {JStr("create"), JStr("update")},
        upd \in {"absent", "dict", "not_a_dict"},
        rest \in {"ok", "absent"}}
Bodies == {PlainBody(k) : k \in {"empty", "not_utf8", "malformed", "array"}} \cup ObjectBodies

\* ---- X-Hub-Signature header values.  Hmac(key, body) stands for the hex digest
\* of HMAC-SHA256 of body under key: equal digests have equal key and body.
Hmac(key, body) == [kind |-> "hmac", key |-> key, body |-> body]
SigAbsent == [kind |-> "absent", key |-> "", body |-> EmptyBody]
SigEmpty == [kind |-> "empty", key |-> "", body |-> EmptyBody]
SigNonAscii == [kind |-> "non_ascii", key |-> "", body |-> EmptyBody]
SignaturesFor(body) ==
    {SigAbsent, SigEmpty, SigNonAscii, Hmac(ConfiguredClientSecret, body),
     Hmac("other_secret", body), Hmac(ConfiguredClientSecret, EmptyBody)}

PostRequests ==
    UNION {{[method |-> "POST", content_length |-> cl, signature |-> sig, body |-> b] :
                cl \in {"exact", "absent", "not_a_number"}, sig \in SignaturesFor(b)} :
           b \in Bodies}

\* server.py:94-95 -- the bytes read: Content-Length bytes, none without the header.
BodyRead(req) == IF req.content_length = "absent" THEN EmptyBody ELSE req.body

\* server.py:128-140 -- _verify_signature: "true" / "false", or "TypeError"
\* raised by hmac.compare_digest for a str with non-ASCII characters.
VerifySignature(body, signature) ==
    IF signature.kind \in {"absent", "empty"} THEN "false"
    ELSE IF signature.kind = "non_ascii" THEN "TypeError"
    ELSE IF signature = Hmac(ConfiguredClientSecret, body) THEN "true"
    ELSE "false"

\* pydantic (lax mode): an int field takes a JSON integer or a numeric string,
\* a str field takes a JSON string only.
IntFieldOk(v) == v.t \in {"int", "numstr"}
StrFieldOk(v) == v.t = "str"

\* server.py:19-28, 105 -- WebhookEvent.model_validate accepts the document.
SchemaValid(body) ==
    /\ body.kind = "object"
    /\ StrFieldOk(body.object_type)
    /\ IntFieldOk(body.object_id)
    /\ StrFieldOk(body.aspect_type)
    /\ body.rest = "ok"
    /\ body.updates # "not_a_dict"

\* No event has been passed to the callback.
NoEvent == [object_type |-> "", object_id |-> 0, aspect_type |-> "", updates |-> ""]

\* server.py:105 -- the WebhookEvent built from a schema-valid document:
\* numeric strings become integers, absent updates become the empty dict.
ParseEvent(body) ==
    [object_type |-> body.object_type.s, object_id |-> body.object_id.n,
     aspect_type |-> body.aspect_type.s,
     updates |-> IF body.updates = "dict" THEN "dict" ELSE "empty_dict"]

\* server.py:94-105 -- do_POST up to the callback: "pass" when the event
\* callback is to be called, else the status of the error response.
\* int(Content-Length) raises ValueError, compare_digest TypeError and
\* body.decode UnicodeDecodeError: all fall to `except Exception` (500).
PostValidation(req) ==
    IF req.content_length = "not_a_number" THEN "500"
    ELSE LET body == BodyRead(req)
             ok == VerifySignature(body, req.signature)
         IN IF ok = "TypeError" THEN "500"
            ELSE IF ok = "false" THEN "403"
            ELSE IF body.kind = "not_utf8" THEN "500"
            ELSE IF body.kind \in {"empty", "malformed"} THEN "400"
            ELSE IF ~SchemaValid(body) THEN "400"
            ELSE "pass"

StatusOf(s) == CASE s = "400" -> 400 [] s = "403" -> 403 [] s = "500" -> 500 [] OTHER -> 200

ErrorPage == <<"error">>
StatusOkBody == <<"status", "ok">>

\* server.py:90-110 -- do_POST from the request to the error response, or to
\* the call of the event callback (server.py:110), which runs on the server's
\* only thread.
DoPost(req) ==
    /\ h_pc = "idle"
    /\ h_req' = req
    /\ LET v == PostValidation(req)
       IN IF v = "pass"
          THEN /\ h_pc' = "callback"
               /\ h_cb_calls' = 1
               /\ h_cb_event' = ParseEvent(BodyRead(req))
               /\ h_sent' = FALSE
               /\ h_status' = 0
               /\ h_body' = <<>>
          ELSE /\ h_pc' = "responded"
               /\ h_cb_calls' = 0
               /\ h_cb_event' = NoEvent
               /\ h_sent' = TRUE
               /\ h_status' = StatusOf(v)
               /\ h_body' = ErrorPage

\* server.py:110-116 -- the event callback returns; the 200 response is sent.
CallbackReturns ==
    /\ h_pc = "callback"
    /\ h_pc' = "responded"
    /\ h_sent' = TRUE
    /\ h_status' = 200
    /\ h_body' = StatusOkBody
    /\ UNCHANGED <<h_req, h_cb_calls, h_cb_event>>

\* server.py:110, 124-126 -- the event callback raises; the response is 500.
CallbackRaises ==
    /\ h_pc = "callback"
    /\ h_pc' = "responded"
    /\ h_sent' = TRUE
    /\ h_status' = 500
    /\ h_body' = ErrorPage
    /\ UNCHANGED <<h_req, h_cb_calls, h_cb_event>>

\* ---- Verification requests: for each hub.* key the values the query string
\* gives it, in order (after percent-decoding).
Values(S) == {<<>>} \cup {<<x>> : x \in S} \cup {<<x, y>> : x \in S, y \in S}
GetRequests ==
    {[method |-> "GET", mode |-> m, challenge |-> ch, token |-> tk] :
        m \in Values({"subscribe", "unsubscribe", ""}),
        ch \in Values({"abc123", ""}),
        tk \in Values({ConfiguredVerifyToken, "wrong_token", ""})}

\* server.py:57 -- parse_qs (keep_blank_values=False) drops blank values.
ParseQs(values) == SelectSeq(values, LAMBDA x : x # "")

\* server.py:60, 63 -- a key is a str for WebhookChallenge when parse_qs gives it
\* exactly one value (no value: the key is missing; several: a list).
IsStrParam(values) == Len(ParseQs(values)) = 1
ParamOf(values) == ParseQs(values)[1]

\* server.py:52-88 -- the status and body of do_GET's response.
GetResponse(req) ==
    IF ~(IsStrParam(req.mode) /\ IsStrParam(req.challenge) /\ IsStrParam(req.token))
    THEN [status |-> 400, body |-> ErrorPage]
    ELSE IF ParamOf(req.mode) # "subscribe" THEN [status |-> 400, body |-> ErrorPage]
    ELSE IF ParamOf(req.token) # ConfiguredVerifyToken THEN [status |-> 403, body |-> ErrorPage]
    ELSE [status |-> 200, body |-> <<"hub.challenge", ParamOf(req.challenge)>>]

\* server.py:52-88 -- do_GET.
DoGet(req) ==
    /\ h_pc = "idle"
    /\ h_req' = req
    /\ h_status' = GetResponse(req).status
    /\ h_body' = GetResponse(req).body
    /\ h_sent' = TRUE
    /\ h_cb_calls' = 0
    /\ h_cb_event' = NoEvent
    /\ h_pc' = "responded"

\* socketserver: the request is finished; the server thread takes the next
\* request with a new WebhookHandler.
NextRequest ==
    /\ h_pc = "responded"
    /\ h_pc' = "idle"
    /\ h_req' = [method |-> "none"]
    /\ h_status' = 0
    /\ h_body' = <<>>
    /\ h_cb_calls' = 0
    /\ h_cb_event' = NoEvent
    /\ h_sent' = FALSE

\* The manager at rest, for the specification of the handler alone.
MgrAtRest ==
    /\ client_id = "id"
    /\ client_secret = ConfiguredClientSecret
    /\ callback_url = "cb"
    /\ verify_token = ConfiguredVerifyToken
    /\ subscription_id = None
    /\ lock_holder = 0
    /\ lock_waiters = <<>>
    /\ attempts = 1
    /\ provider_subs = <<>>
    /\ call = [c \in Calls |-> IdleCall]
    /\ last_returned = None

HandlerIdle ==
    /\ h_pc = "idle"
    /\ h_req = [method |-> "none"]
    /\ h_status = 0
    /\ h_body = <<>>
    /\ h_cb_calls = 0
    /\ h_cb_event = NoEvent
    /\ h_sent = FALSE

\* =========================================================================
\*  The FastAPI webhook application (webhook_server.py)
\* =========================================================================

\* An optional value (str | None): <<>> is None, <<s>> is the string s.
Absent == <<>>

\* webhook_server.py:111-116 -- the query parameters of a verification GET.
VerifyRequests ==
    [mode : {Absent, <<"subscribe">>, <<"unsubscribe">>},
     token : {Absent, <<"">>, <<"env">>, <<"generated">>, <<"wrong">>},
     challenge : {Absent, <<"abc123">>}]

NoReply == [kind |-> "none"]

\* webhook_server.py:121 -- manager_singleton.verify_token or
\* os.environ.get('STRAVA_VERIFY_TOKEN')
ExpectedToken_env == env_verify_token
ExpectedToken == IF TruthyStr(verify_token) THEN <<verify_token>> ELSE env_verify_token

\* webhook_server.py:119-126 -- the response of verify_subscription.
VerifyResponse(req) ==
    IF req.mode = Absent /\ req.token = Absent /\ req.challenge = Absent
    THEN [kind |-> "ready", status |-> 200, req |-> req]
    ELSE IF req.mode = <<"subscribe">> /\ req.token = ExpectedToken
    THEN [kind |-> "challenge", status |-> 200, req |-> req]
    ELSE [kind |-> "failed", status |-> 400, req |-> req]

\* A response is on its way out; it is sent before the application takes its
\* next step.
Replied == a_reply # NoReply

\* webhook_server.py:111-126 -- verify_subscription answers a GET.
VerifySubscription(req) ==
    /\ a_proc = "serving"
    /\ ~Replied
    /\ a_reply' = VerifyResponse(req)
    /\ UNCHANGED <<mgr_vars, a_proc, a_task, env_verify_token>>

\* webhook.py:23-30, 149-151 -- the attributes a StravaWebhookManager has:
\* the fields set by __init__, the methods and the subscription_id property.
ManagerAttributes ==
    {"base_url", "client_id", "client_secret", "callback_url", "verify_token",
     "_subscription_id", "_lock", "ensure_subscription", "delete_subscription",
     "_retry", "_find_existing_subscription_id", "_create_subscription",
     "subscription_id"}

\* getattr(manager_singleton, name, None) for a name that, when the manager has
\* it, is the subscription_id property (webhook.py:149-151).
GetAttr(name) == IF name \in ManagerAttributes THEN subscription_id ELSE None

\* The query of a GET without parameters.
NoQuery == [mode |-> Absent, token |-> Absent, challenge |-> Absent]

\* webhook_server.py:104-108 -- healthz answers a GET /healthz.
Healthz ==
    /\ a_proc = "serving"
    /\ ~Replied
    /\ a_reply' = [kind |-> "health", status |-> 200, req |-> NoQuery,
                   subscription_id |-> GetAttr("current_subscription_id")]
    /\ UNCHANGED <<mgr_vars, a_proc, a_task, env_verify_token>>

ReplySent ==
    /\ Replied
    /\ a_reply' = NoReply
    /\ UNCHANGED <<mgr_vars, a_proc, a_task, env_verify_token>>

\* webhook_server.py:60-90 -- lifespan up to its yield: the registration task
\* is created (asyncio.create_task, result never awaited) and the application
\* starts serving. The task starts in asyncio.sleep(2).
LifespanStartup ==
    /\ a_proc = "starting"
    /\ a_proc' = "serving"
    /\ a_task' = "sleeping"
    /\ UNCHANGED <<mgr_vars, a_reply, env_verify_token>>

\* webhook_server.py:37-45 -- the state of the registration task, given the
\* record of its ensure_subscription call: an exception is logged and raised
\* again, which ends the task with that exception.
TaskState(r) ==
    IF r.pc = "returned" THEN "done"
    ELSE IF r.pc = "raised" THEN "failed"
    ELSE "ensuring"

\* The registration task's ensure_subscription call takes slot 1: it is the
\* first call made on the manager.
TaskCall == 1

\* webhook_server.py:33-39 -- the sleep ends and ensure_subscription is called.
RegisterStarts ==
    /\ a_task = "sleeping"
    /\ ~Replied
    /\ EnsureStart(TaskCall)
    /\ a_task' = TaskState(call'[TaskCall])
    /\ UNCHANGED <<a_proc, a_reply, env_verify_token>>

\* A step of the registration task's ensure_subscription call.
RegisterStep(step) ==
    /\ a_task = "ensuring"
    /\ ~Replied
    /\ CASE step = "ListOk" -> ListOk(TaskCall)
         [] step = "ListFail" -> ListFail(TaskCall)
         [] step = "CreateOk" -> CreateOk(TaskCall)
         [] step = "CreateFail" -> CreateFail(TaskCall)
         [] step = "SleepDone" -> SleepDone(TaskCall)
    /\ a_task' = TaskState(call'[TaskCall])
    /\ UNCHANGED <<a_proc, a_reply, env_verify_token>>

RegisterSteps == {"ListOk", "ListFail", "CreateOk", "CreateFail", "SleepDone"}

\* The process state while lifespan's shutdown part awaits delete_subscription
\* in call slot c: when the call is over lifespan ends and the process stops.
ProcState(r) == IF r.pc \in {"returned", "raised"} THEN "stopped" ELSE "stopping"

\* webhook_server.py:91-98 -- the server is told to stop: lifespan resumes after
\* its yield and awaits delete_subscription. A registration task still in its
\* sleep is cancelled when the event loop is closed.
Shutdown(c) ==
    /\ a_proc = "serving"
    /\ ~Replied
    /\ DeleteStart(c)
    /\ a_proc' = ProcState(call'[c])
    /\ a_task' = IF a_task = "sleeping" /\ ProcState(call'[c]) = "stopped"
                 THEN "cancelled" ELSE a_task
    /\ UNCHANGED <<a_reply, env_verify_token>>

\* A step of lifespan's delete_subscription call.
ShutdownStep(c, step) ==
    /\ a_proc = "stopping"
    /\ call[c].kind = "delete"
    /\ CASE step = "LockGranted" -> LockGranted(c)
         [] step = "DeleteEnds" -> DeleteEnds(c)
    /\ a_proc' = ProcState(call'[c])
    /\ UNCHANGED <<a_task, a_reply, env_verify_token>>

\* The result of a finished call is taken (the task object, lifespan).
ResultTaken(c) ==
    /\ ~Replied
    /\ Forget(c)
    /\ UNCHANGED app_vars

AppAtRest ==
    /\ a_proc = "starting"
    /\ a_task = "none"
    /\ a_reply = NoReply
    /\ env_verify_token = Absent

\* webhook.py:27, 154 -- manager_singleton is built at import from the
\* environment: verify_token is STRAVA_VERIFY_TOKEN (unset, empty or set).
AppStart ==
    /\ MgrInit
    /\ a_proc = "starting"
    /\ a_task = "none"
    /\ a_reply = NoReply
    /\ env_verify_token \in {Absent, <<"">>, <<"env">>}
    /\ verify_token = IF env_verify_token = Absent THEN "" ELSE env_verify_token[1]

\* =========================================================================
\*  Webhook-triggered processing (webhook/processor.py, ActivityProcessor, and
\*  webhook_server.py, _process_activity)
\* =========================================================================

\* source/file.py:9, source/garmin.py:19-20, source/strava.py:15-16
FileSource == [class |-> "FileSource", uri_scheme |-> "file", http_hosts |-> {}]
GarminSource == [class |-> "GarminSource", uri_scheme |-> "garmin",
                 http_hosts |-> {"connect.garmin.com"}]
StravaSource == [class |-> "StravaSource", uri_scheme |-> "strava",
                 http_hosts |-> {"www.strava.com", "strava.com"}]
SourceClasses == {FileSource, GarminSource, StravaSource}

\* The lists of sources an ActivityProcessor can be built with.
Registries == UNION {[1..n -> SourceClasses] : n \in 0..MaxSources}

\* cli.py:22-35 -- what initialize_sources (the one webhook_server.py:19
\* imports) returns: a FileSource, and a GarminSource when credentials are set.
CliRegistries == {<<FileSource>>, <<FileSource, GarminSource>>}

ActivityIds == {0, 7}

\* str(activity_id) in an f-string.
IdStr(n) == IF n = 0 THEN "0" ELSE "7"

\* processor.py:49 -- f'strava://{activity_id}', as urlparse splits it.
StravaUri(id) == [scheme |-> "strava", hostname |-> IdStr(id), path |-> ""]

\* webhook_server.py:145 -- f'https://www.strava.com/activities/{activity_id}'
ActivityUrl(id) == [scheme |-> "https", hostname |-> "www.strava.com",
                    path |-> "/activities/" \o IdStr(id)]

\* source/base.py:18-34 -- BaseSource.matches_uri
MatchesUri(source, uri) ==
    uri.scheme = source.uri_scheme \/ uri.hostname \in source.http_hosts

\* processor.py:90-102 -- the index of the first source that matches, 0 for None.
RECURSIVE FirstFrom(_, _, _)
FirstFrom(sources, uri, i) ==
    IF i > Len(sources) THEN 0
    ELSE IF MatchesUri(sources[i], uri) THEN i
    ELSE FirstFrom(sources, uri, i + 1)

GetSourceForUri_last(sources, uri) ==
    IF \E i \in DOMAIN sources : MatchesUri(sources[i], uri)
    THEN CHOOSE i \in DOMAIN sources :
            /\ MatchesUri(sources[i], uri)
            /\ \A j \in DOMAIN sources : MatchesUri(sources[j], uri) => j <= i
    ELSE 0
GetSourceForUri(sources, uri) == FirstFrom(sources, uri, 1)

\* webhook_server.py:147-151 -- the index of the first StravaSource, 0 for None.
FirstStravaSource(sources) ==
    IF \E i \in DOMAIN sources : sources[i].class = "StravaSource"
    THEN CHOOSE i \in DOMAIN sources :
            /\ sources[i].class = "StravaSource"
            /\ \A j \in DOMAIN sources : sources[j].class = "StravaSource" => i <= j
    ELSE 0

\* The events process_webhook_event is called with (schema-valid WebhookEvents).
ProcessorEvents ==
    [object_type : {"activity", "athlete"},
     aspect_type : {"create", "update"},
     object_id : ActivityIds]

\* processor.py:29-35 -- the events process_webhook_event returns on at once.
Ignored_by_type(event) == event.object_type # "activity"
Ignored(event) == event.object_type # "activity" \/ event.aspect_type # "create"

\* The exceptions a step of a run can raise; all are subclasses of Exception
\* (fitfile.py:15-24: the three FIT errors are ValueErrors).
Exceptions == {"NotAFitFileError", "CorruptedFitFileError", "InvalidActivityFileError",
               "Exception"}

\* processor.py:85-88 and processor.py:40, webhook_server.py:177-180 -- the
\* except clauses around a run: the two FIT errors, then Exception.
Caught_fit_errors(exc) == exc \in {"NotAFitFileError", "CorruptedFitFileError"}
Caught(exc) == exc \in {"NotAFitFileError", "CorruptedFitFileError"} \/ exc \in Exceptions

\* What read_activity can return: bytes that are no FIT file, a FIT file with
\* decoder errors, a FIT file that is no valid activity, an activity whose
\* device records fail validation, or an activity with n device statuses.
ActivityBytes ==
    {[kind |-> k, devices |-> 0] : k \in {"not_fit", "corrupted", "invalid", "bad_device"}}
        \cup {[kind |-> "activity", devices |-> n] : n \in 0..MaxDevices}

\* fitfile.py:38-52, 92-107 -- FitFile(content) and get_devices_status(): the
\* exception raised, or "" and the device statuses derived.
Decode(content) ==
    CASE content.kind = "not_fit" -> [exc |-> "NotAFitFileError", devices |-> <<>>]
      [] content.kind = "corrupted" -> [exc |-> "CorruptedFitFileError", devices |-> <<>>]
      [] content.kind = "invalid" -> [exc |-> "InvalidActivityFileError", devices |-> <<>>]
      [] content.kind = "bad_device" -> [exc |-> "Exception", devices |-> <<>>]
      [] OTHER -> [exc |-> "", devices |-> [i \in 1..content.devices |-> i]]

\* No run; in a run, `resolved` tells whether it got to look for its source.
NoRun == [impl |-> "none"]

\* The run ends: with nothing raised, or with exc raised to the caller when no
\* except clause catches it.
RunEnds(exc, stage) ==
    /\ p_pc' = IF exc = "" \/ Caught(exc) THEN "returned" ELSE "raised"
    /\ p_failed' = IF exc = "" THEN "" ELSE stage

\* The run goes on to read the activity through source i.
ReadStarts(i, uri) ==
    /\ p_pc' = "read"
    /\ p_reads' = <<[source |-> i, uri |-> uri]>>
    /\ UNCHANGED <<p_decoded, p_devices, p_published, p_failed>>

\* processor.py:20-61 -- process_webhook_event up to its call of read_activity.
ProcessWebhookEvent(sources, mqtt, event) ==
    /\ p_pc = "idle"
    /\ p_run' = [impl |-> "ActivityProcessor", sources |-> sources, mqtt |-> mqtt,
                 event |-> event, resolved |-> ~Ignored(event)]
    /\ LET uri == StravaUri(event.object_id)
           i == GetSourceForUri(sources, uri)
       IN IF Ignored(event) \/ i = 0
          THEN /\ RunEnds("", "")
               /\ UNCHANGED <<p_reads, p_decoded, p_devices, p_published>>
          ELSE ReadStarts(i, uri)

\* webhook_server.py:146 -- initialize_sources() returns a list or raises (a
\* source's constructor fails).
InitOutcomes ==
    {[raises |-> TRUE, sources |-> <<>>]}
        \cup {[raises |-> FALSE, sources |-> r] : r \in CliRegistries}

\* webhook_server.py:142-156 -- _process_activity up to its call of
\* read_activity; init is the outcome of initialize_sources.
ProcessActivity(id, init, mqtt) ==
    /\ p_pc = "idle"
    /\ p_run' = [impl |-> "webhook_server", sources |-> init.sources, mqtt |-> mqtt,
                 event |-> [object_type |-> "activity", aspect_type |-> "create",
                            object_id |-> id],
                 resolved |-> ~init.raises]
    /\ IF init.raises
       THEN /\ RunEnds("Exception", "resolve")
            /\ UNCHANGED <<p_reads, p_decoded, p_devices, p_published>>
       ELSE IF FirstStravaSource(init.sources) = 0
       THEN /\ RunEnds("", "")
            /\ UNCHANGED <<p_reads, p_decoded, p_devices, p_published>>
       ELSE ReadStarts(FirstStravaSource(init.sources), ActivityUrl(id))

\* processor.py:61-81, webhook_server.py:156-175 -- read_activity returns
\* content: it is decoded and the device statuses are derived; with statuses and
\* a client the publishing starts.
ReadReturns(content) ==
    /\ p_pc = "read"
    /\ p_decoded' = <<content>>
    /\ LET d == Decode(content)
       IN /\ p_devices' = d.devices
          /\ IF d.exc # ""
             THEN RunEnds(d.exc, IF content.kind = "bad_device" THEN "derive" ELSE "decode")
             ELSE IF d.devices = <<>> \/ ~p_run.mqtt
             THEN RunEnds("", "")
             ELSE p_pc' = "publish" /\ UNCHANGED p_failed
    /\ UNCHANGED <<p_run, p_reads, p_published>>

\* read_activity raises.
ReadRaises(exc) ==
    /\ p_pc = "read"
    /\ RunEnds(exc, "read")
    /\ UNCHANGED <<p_run, p_reads, p_decoded, p_devices, p_published>>

\* processor.py:74-83, webhook_server.py:168-175 -- publish_on_mqtt of the
\* next device status returns.
PublishReturns ==
    /\ p_pc = "publish"
    /\ p_published' = Append(p_published, p_devices[Len(p_published) + 1])
    /\ IF Len(p_published') = Len(p_devices)
       THEN RunEnds("", "")
       ELSE UNCHANGED <<p_pc, p_failed>>
    /\ UNCHANGED <<p_run, p_reads, p_decoded, p_devices>>

\* publish_on_mqtt of the next device status raises.
PublishRaises(exc) ==
    /\ p_pc = "publish"
    /\ RunEnds(exc, "publish")
    /\ UNCHANGED <<p_run, p_reads, p_decoded, p_devices, p_published>>

\* ---- handle_event (webhook_server.py:129-139)

\* X-Hub-Signature of a delivery: the HMAC of its body, another value, or none.
DeliverySignatures == {"valid", "invalid", "absent"}

\* The JSON object of a delivery, by the three keys handle_event reads;
\* object_id None stands for a payload without the key.
DeliveryPayloads ==
    [object_type : {"activity", "athlete"},
     aspect_type : {"create", "update"},
     object_id : ActivityIds \cup {None}]

Deliveries == [signature : DeliverySignatures, payload : DeliveryPayloads]

NoDelivery == [signature |-> "none"]
NoResponse == [status |-> "", body |-> ""]

\* webhook_server.py:135 -- the payloads for which a processing thread is started.
StartsProcessing(payload) ==
    /\ payload.aspect_type = "create"
    /\ payload.object_type = "activity"
    /\ Truthy(payload.object_id)

\* webhook_server.py:129-139 -- handle_event, with the start of the thread's
\* _process_activity (142-156); the signature of the delivery is not read.
HandleEvent(delivery, init, mqtt) ==
    /\ p_pc = "idle"
    /\ e_delivery' = delivery
    /\ IF StartsProcessing(delivery.payload)
       THEN /\ e_response' = [status |-> "200", body |-> "processing"]
            /\ ProcessActivity(delivery.payload.object_id, init, mqtt)
       ELSE /\ e_response' = [status |-> "200", body |-> "ignored"]
            /\ p_pc' = "returned"
            /\ UNCHANGED <<p_run, p_reads, p_decoded, p_devices, p_published, p_failed>>

IngressIdle == e_delivery = NoDelivery /\ e_response = NoResponse

ProcIdle ==
    /\ IngressIdle
    /\ p_pc = "idle"
    /\ p_run = NoRun
    /\ p_reads = <<>>
    /\ p_decoded = <<>>
    /\ p_devices = <<>>
    /\ p_published = <<>>
    /\ p_failed = ""

\* The caller goes on; the next event is processed by a new run.
RunOver ==
    /\ p_pc \in {"returned", "raised"}
    /\ p_pc' = "idle"
    /\ p_run' = NoRun
    /\ p_reads' = <<>>
    /\ p_decoded' = <<>>
    /\ p_devices' = <<>>
    /\ p_published' = <<>>
    /\ p_failed' = ""
    /\ e_delivery' = NoDelivery
    /\ e_response' = NoResponse

\* =========================================================================
\*  MQTTClient.publish (mqtt/mqtt.py)
\* =========================================================================

\* The retry counts publish is called with; range(retries) is empty for 0 (and
\* for a negative count, which behaves as 0 does).
RetryCounts == 0..MaxRetries

\* What an attempt meets: the client is not connected, the transport's publish
\* returns an error code, raises, or returns MQTT_ERR_SUCCESS.
AttemptOutcomes == {"not_connected", "rc_error", "exception", "success"}

\* mqtt.py:55-61 -- the message is handed to self.client.publish unless the
\* client is not connected.
HandedToTransport(outcome) == outcome # "not_connected"

\* mqtt.py:57, 71 -- if attempt < retries - 1: a failed attempt is followed by
\* a sleep unless it is the last one.
SleepsAfter_always(attempt, retries) == TRUE
SleepsAfter(attempt, retries) == attempt < retries - 1

Backoff_doubled(attempt) == 2 ^ (attempt + 1)

\* mqtt.py:58, 72 -- time.sleep(2**attempt), attempt counted from 0.
Backoff(attempt) == 2 ^ attempt

SkipsRestOfPass_never(outcome) == FALSE

\* mqtt.py:55-60 -- the not-connected branch ends with `continue`, so the
\* rest of the loop body, the wait of lines 71-72 included, is skipped.
SkipsRestOfPass(outcome) == outcome = "not_connected"

\* mqtt.py:57-58 -- the wait made inside the not-connected branch.
BranchSleeps(outcome, attempt, retries) ==
    IF outcome = "not_connected" /\ SleepsAfter(attempt, retries)
    THEN <<Backoff(attempt)>> ELSE <<>>

\* mqtt.py:71-72 -- the wait at the end of the loop body.
TailSleeps(outcome, attempt, retries) ==
    IF ~SkipsRestOfPass(outcome) /\ SleepsAfter(attempt, retries)
    THEN <<Backoff(attempt)>> ELSE <<>>

\* mqtt.py:54-72 -- the waits of one failed pass, in order.
PassSleeps(outcome, attempt, retries) ==
    BranchSleeps(outcome, attempt, retries) \o TailSleeps(outcome, attempt, retries)

PublishIdle ==
    /\ m_pc = "idle"
    /\ m_retries = 0
    /\ m_attempt = 0
    /\ m_outcomes = <<>>
    /\ m_sleeps = <<>>
    /\ m_sent = 0
    /\ m_result = "none"

\* mqtt.py:42-53 -- publish is called: the loop starts, or with no attempt to
\* make the call returns False (mqtt.py:74-75).
PublishCall(retries) ==
    /\ m_pc = "idle"
    /\ m_retries' = retries
    /\ m_attempt' = 0
    /\ IF retries > 0
       THEN m_pc' = "attempt" /\ m_result' = "none"
       ELSE m_pc' = "done" /\ m_result' = "False"
    /\ UNCHANGED <<m_outcomes, m_sleeps, m_sent>>

\* mqtt.py:53, 74-75 -- the for loop after a failed pass: the next attempt
\* while range(retries) has one, else the call returns False.
LoopAdvance ==
    IF m_attempt + 1 < m_retries
    THEN m_pc' = "attempt" /\ m_attempt' = m_attempt + 1 /\ UNCHANGED m_result
    ELSE m_pc' = "done" /\ m_result' = "False" /\ UNCHANGED m_attempt

\* mqtt.py:54-72 -- one pass of the loop body: the attempt meets `outcome`.
Attempt(outcome) ==
    /\ m_pc = "attempt"
    /\ m_outcomes' = Append(m_outcomes, outcome)
    /\ m_sent' = IF HandedToTransport(outcome) THEN m_sent + 1 ELSE m_sent
    /\ IF outcome = "success"
       THEN m_pc' = "done" /\ m_result' = "True" /\ UNCHANGED <<m_sleeps, m_attempt>>
       ELSE IF PassSleeps(outcome, m_attempt, m_retries) # <<>>
       THEN /\ m_pc' = "sleep"
            /\ m_sleeps' = m_sleeps \o PassSleeps(outcome, m_attempt, m_retries)
            /\ UNCHANGED <<m_result, m_attempt>>
       ELSE LoopAdvance /\ UNCHANGED m_sleeps
    /\ UNCHANGED m_retries

\* mqtt.py:58-59, 72 -- time.sleep returns and the loop goes on.
SleepReturns ==
    /\ m_pc = "sleep"
    /\ LoopAdvance
    /\ UNCHANGED <<m_retries, m_outcomes, m_sleeps, m_sent>>

\* The caller has the result; the next message is a new call.
PublishOver ==
    /\ m_pc = "done"
    /\ m_pc' = "idle"
    /\ m_retries' = 0
    /\ m_attempt' = 0
    /\ m_outcomes' = <<>>
    /\ m_sleeps' = <<>>
    /\ m_sent' = 0
    /\ m_result' = "none"

\* =========================================================================
\*  DeviceStatus (fitfile/model.py)
\* =========================================================================

\* A decoded field value: the decoder yields a number for a code it has no
\* name for and a string otherwise.
IntVal(n) == [type |-> "int", int |-> n, str |-> ""]
StrVal(str) == [type |-> "str", int |-> 0, str |-> str]

\* The decimal form of the product and device-type codes used below.
Decimal(n) ==
    CASE n = 7 -> "7"
      [] n = 22 -> "22"
      [] n = 3592 -> "3592"
      [] OTHER -> "0"

\* str(value), and what coerce_numbers_to_str does to a str field (model.py:38).
PyStr(v) == IF v.type = "str" THEN v.str ELSE Decimal(v.int)

\* model.py:15-22
MODEL_OVERRIDE ==
    ("favero_electronics" :> ("22" :> "assioma pro mx-2 spd"))
    @@ ("garmin" :> ("3592" :> "varia rtl516"))

NoMapping == [code \in {} |-> ""]

ManufacturerMapping_none(manufacturer) == NoMapping

\* model.py:61 -- MODEL_OVERRIDE.get(self.manufacturer, {})
ManufacturerMapping(manufacturer) ==
    IF manufacturer \in DOMAIN MODEL_OVERRIDE
    THEN MODEL_OVERRIDE[manufacturer] ELSE NoMapping

\* dict.get(key, default)
DictGet(dict, key, default) == IF key \in DOMAIN dict THEN dict[key] ELSE default

SerialNumbers == {"3359471441", "7891445"}
\* battery_level: int | None
BatteryLevels == {None, 0, 1, 100}
HardwareVersions == {Absent, <<"66">>}
Manufacturers == {"garmin", "acme"}
DecodedProducts == {IntVal(3592), IntVal(7)}
\* The record's <manufacturer>_product field.
ExtraProducts == {Absent, <<StrVal("")>>, <<IntVal(3592)>>, <<StrVal("bsm")>>}
\* The record's <source_type>_device_type field.
ExtraDeviceTypes == {Absent, <<StrVal("bike_radar")>>}

\* A device-information record with a battery status, as handed to
\* DeviceStatus.model_validate (fitfile.py:103-105). `complete` says that every
\* required field (model.py:41-51) is there with a value of its type;
\* `other_extra` that the record has fields the model does not declare, such
\* as timestamp.
DeviceRecords ==
    [serial_number : SerialNumbers, battery_level : BatteryLevels,
     hardware_version : HardwareVersions, manufacturer : Manufacturers,
     product : DecodedProducts, device_type : {IntVal(7)},
     extra_product : ExtraProducts, extra_device_type : ExtraDeviceTypes,
     other_extra : BOOLEAN, complete : BOOLEAN]

\* model.py:36-39 -- extra = 'allow': self.model_extra is non-empty exactly when
\* the record has a field the model does not declare.
ModelExtraTruthy(r) ==
    r.extra_product # Absent \/ r.extra_device_type # Absent \/ r.other_extra

\* model.py:57, 70 -- `assert self.model_extra`
AssertModelExtra(r) == ModelExtraTruthy(r)

\* model.py:58 -- str(self.model_extra.get(product_key, self.product))
ProductAfterExtra(r) ==
    IF r.extra_product # Absent THEN PyStr(r.extra_product[1]) ELSE PyStr(r.product)

\* model.py:53-63 -- override_model: the product it leaves.
OverrideModel(r) ==
    DictGet(ManufacturerMapping(r.manufacturer), ProductAfterExtra(r), ProductAfterExtra(r))

\* model.py:65-72 -- override_device_type: the device type it leaves.
OverrideDeviceType(r) ==
    IF r.extra_device_type # Absent
    THEN PyStr(r.extra_device_type[1]) ELSE PyStr(r.device_type)

NoStatus == [serial_number |-> "", manufacturer |-> "", product |-> "",
             device_type |-> "", battery_level |-> None, hardware_version |-> Absent]

\* DeviceStatus.model_validate: field validation, then the two validators;
\* a failed assert in a validator is reported as a validation error.
Validates(r) == r.complete /\ AssertModelExtra(r)

Derived(r) ==
    [serial_number |-> r.serial_number, manufacturer |-> r.manufacturer,
     product |-> OverrideModel(r), device_type |-> OverrideDeviceType(r),
     battery_level |-> r.battery_level, hardware_version |-> r.hardware_version]

\* model.py:76 -- f'strava/{self.serial_number}/status'
StatusTopic(status) == "strava/" \o status.serial_number \o "/status"

DiscoveryTopic_by_type(status) ==
    "homeassistant/device/strava-" \o status.device_type \o "/config"

\* model.py:127 -- f'homeassistant/device/strava-{self.serial_number}/config'
DiscoveryTopic(status) ==
    "homeassistant/device/strava-" \o status.serial_number \o "/config"

\* model.py:80 -- f'strava-{self.serial_number}'
DeviceId(status) == "strava-" \o status.serial_number

\* model.py:114 -- `if self.battery_level:`
HasBatteryLevel(status) == Truthy(status.battery_level)

\* model.py:81-125 -- the discovery payload: the device block, the keys of the
\* components and the state topic.
DiscoveryPayload(status) ==
    [dev |-> [ids |-> DeviceId(status),
              name |-> "Strava " \o status.device_type \o " " \o status.serial_number,
              mf |-> status.manufacturer,
              mdl |-> status.product,
              sn |-> status.serial_number,
              hw |-> IF status.hardware_version # Absent
                        /\ TruthyStr(status.hardware_version[1])
                     THEN status.hardware_version ELSE Absent],
     cmps |-> {DeviceId(status) \o "_voltage", DeviceId(status) \o "_battery_status"}
              \cup (IF HasBatteryLevel(status)
                    THEN {DeviceId(status) \o "_battery_level"} ELSE {}),
     state_topic |-> StatusTopic(status)]

PublishResults == {"True", "False", "raises"}

DeviceIdle ==
    /\ d_pc = "idle"
    /\ d_record = CHOOSE r \in DeviceRecords : TRUE
    /\ d_status = NoStatus
    /\ d_calls = <<>>

\* DeviceStatus.model_validate(message_stripped)
ModelValidate(r) ==
    /\ d_pc = "idle"
    /\ d_record' = r
    /\ IF Validates(r)
       THEN d_pc' = "derived" /\ d_status' = Derived(r)
       ELSE d_pc' = "invalid" /\ d_status' = NoStatus
    /\ UNCHANGED d_calls

\* model.py:74-77 -- publish_on_mqtt up to the return of the first publish.
PublishStatus(result) ==
    /\ d_pc = "derived"
    /\ d_calls' = Append(d_calls, [topic |-> StatusTopic(d_status), kind |-> "status",
                                   cmps |-> {}, result |-> result])
    /\ d_pc' = IF result = "raises" THEN "raised" ELSE "status_published"
    /\ UNCHANGED <<d_record, d_status>>

\* model.py:79-129 -- the rest of publish_on_mqtt.
PublishDiscovery(result) ==
    /\ d_pc = "status_published"
    /\ d_calls' = Append(d_calls, [topic |-> DiscoveryTopic(d_status), kind |-> "discovery",
                                   cmps |-> DiscoveryPayload(d_status).cmps,
                                   result |-> result])
    /\ d_pc' = IF result = "raises" THEN "raised" ELSE "done"
    /\ UNCHANGED <<d_record, d_status>>

\* The next record.
DeviceOver ==
    /\ d_pc \in {"invalid", "raised", "done"}
    /\ d_pc' = "idle"
    /\ d_record' = CHOOSE r \in DeviceRecords : TRUE
    /\ d_status' = NoStatus
    /\ d_calls' = <<>>

\* =========================================================================
\*  FitFile (fitfile/fitfile.py)
\* =========================================================================

\* fitfile.py:62-68 -- the required message groups, in the order of the loop.
RequiredGroups ==
    <<"file_id_mesgs", "activity_mesgs", "session_mesgs", "lap_mesgs", "record_mesgs">>

\* A message of a group, by its `type` field (present only on file_id
\* messages; Absent when the message has no such key).
Message(type) == [type |-> type]

\* A group of self.messages: the key may be missing, the list may be empty.
Group(present, msgs) == [present |-> present, msgs |-> msgs]
MissingGroup == Group(FALSE, <<>>)

FileIdGroups ==
    {MissingGroup, Group(TRUE, <<>>),
     Group(TRUE, <<Message(<<"activity">>)>>),
     Group(TRUE, <<Message(<<"course">>)>>),
     Group(TRUE, <<Message(Absent)>>),
     Group(TRUE, <<Message(<<"activity">>), Message(<<"activity">>)>>),
     Group(TRUE, <<Message(<<"course">>), Message(<<"activity">>)>>)}

OtherGroups == {MissingGroup, Group(TRUE, <<>>), Group(TRUE, <<Message(Absent)>>)}

\* self.messages restricted to the required groups.
MessageSets ==
    {m \in [{RequiredGroups[i] : i \in 1..Len(RequiredGroups)} -> FileIdGroups \cup OtherGroups] :
        /\ m["file_id_mesgs"] \in FileIdGroups
        /\ \A i \in 2..Len(RequiredGroups) : m[RequiredGroups[i]] \in OtherGroups}

\* fitfile.py:69 -- `not self.messages.get(message_type)`
GroupFalsy(messages, name) == ~messages[name].present \/ messages[name].msgs = <<>>

\* fitfile.py:62-70 -- the first group of the loop that is missing or empty,
\* 0 when there is none.
RECURSIVE FirstMissingFrom(_, _)
FirstMissingFrom(messages, i) ==
    IF i > Len(RequiredGroups) THEN 0
    ELSE IF GroupFalsy(messages, RequiredGroups[i]) THEN i
    ELSE FirstMissingFrom(messages, i + 1)

Raised(exception, text) == [raises |-> exception, text |-> text]
Returned == Raised("", "")

\* fitfile.py:58-80 -- validate_activity_messages: what it raises.
ValidateActivityMessages(messages) ==
    LET missing == FirstMissingFrom(messages, 1)
        file_id == messages["file_id_mesgs"].msgs
    IN  IF missing # 0
        THEN Raised("InvalidActivityFileError",
                    "Missing " \o RequiredGroups[missing] \o " message")
        ELSE IF Len(file_id) # 1
        THEN Raised("InvalidActivityFileError", "There must be one file_id message")
        ELSE IF file_id[1].type = Absent
        THEN Raised("KeyError", "type")
        ELSE IF file_id[1].type # <<"activity">>
        THEN Raised("InvalidActivityFileError",
                    "Type property of file_id message must be set to activity")
        ELSE Returned

MaxRecords == 3
DeviceIndexes == {0, 1}
\* battery_status of a device-information record: missing, empty or a status.
BatteryStatuses == {Absent, <<"">>, <<"ok">>, <<"low">>}

\* A device-information record: `validates` says that
\* DeviceStatus.model_validate accepts it (Validates above).
DeviceInfoRecords ==
    [device_index : DeviceIndexes, battery_status : BatteryStatuses, validates : BOOLEAN]

DeviceInfos == UNION {[1..n -> DeviceInfoRecords] : n \in 0..MaxRecords}

\* fitfile.py:98 -- `not message.get('battery_status')`
NoBatteryStatus(message) ==
    message.battery_status = Absent \/ ~TruthyStr(message.battery_status[1])

\* The DeviceStatus of a record, by the fields that tell records apart here.
StatusOfRecord(message) ==
    [device_index |-> message.device_index, battery_status |-> message.battery_status[1]]

DictSet_reinserted(dict, key, value) ==
    SelectSeq(dict, LAMBDA e : e.key # key) \o <<[key |-> key, value |-> value]>>

\* fitfile.py:105 -- dict[key] = value on an insertion-ordered dict: a key that
\* is there keeps its place and takes the new value, a new key goes last.
DictSet(dict, key, value) ==
    IF \E i \in DOMAIN dict : dict[i].key = key
    THEN [i \in DOMAIN dict |->
            IF dict[i].key = key THEN [key |-> key, value |-> value] ELSE dict[i]]
    ELSE Append(dict, [key |-> key, value |-> value])

\* list(dict.values())
DictValues(dict) == [i \in DOMAIN dict |-> dict[i].value]

ListResult(list) == [raises |-> "", list |-> list]
ValidationError == [raises |-> "ValidationError", list |-> <<>>]

\* fitfile.py:97-107 -- the loop of get_devices_status from record i on.
RECURSIVE DevicesFrom(_, _, _)
DevicesFrom(device_info, i, dict) ==
    IF i > Len(device_info) THEN ListResult(DictValues(dict))
    ELSE IF NoBatteryStatus(device_info[i]) THEN DevicesFrom(device_info, i + 1, dict)
    ELSE IF ~device_info[i].validates THEN ValidationError
    ELSE DevicesFrom(device_info, i + 1,
                     DictSet(dict, device_info[i].device_index,
                             StatusOfRecord(device_info[i])))

\* fitfile.py:92-107
GetDevicesStatus(device_info) == DevicesFrom(device_info, 1, <<>>)

NoMessages == [name \in {RequiredGroups[i] : i \in 1..Len(RequiredGroups)} |-> MissingGroup]
NotCalled == [raises |-> "not called", list |-> <<>>]

FitIdle ==
    /\ f_pc = "idle"
    /\ f_messages = NoMessages
    /\ f_error = Returned
    /\ f_device_info = <<>>
    /\ f_result = NotCalled

\* fitfile.py:38-52 -- FitFile(content) on content that decodes to `messages`:
\* the object exists only when validate_activity_messages returns.
Construct(messages) ==
    /\ f_pc = "idle"
    /\ f_messages' = messages
    /\ f_error' = ValidateActivityMessages(messages)
    /\ f_pc' = IF ValidateActivityMessages(messages) = Returned
               THEN "constructed" ELSE "raised"
    /\ UNCHANGED <<f_device_info, f_result>>

\* fitfile.py:92-107 -- fitfile.get_devices_status() on a file whose
\* device_info_mesgs group is `device_info`.
CallGetDevicesStatus(device_info) ==
    /\ f_pc = "constructed"
    /\ f_device_info' = device_info
    /\ f_result' = GetDevicesStatus(device_info)
    /\ f_pc' = "derived"
    /\ UNCHANGED <<f_messages, f_error>>

\* The next file.
FitOver ==
    /\ f_pc \in {"raised", "derived"}
    /\ f_pc' = "idle"
    /\ f_messages' = NoMessages
    /\ f_error' = Returned
    /\ f_device_info' = <<>>
    /\ f_result' = NotCalled

\* =========================================================================
\*  Source resolution and StravaSource.read_activity (source/, sources.py)
\* =========================================================================

\* sources.py:13-37 -- what initialize_sources returns: a FileSource, a
\* GarminSource when credentials are set, a StravaSource last when the
\* refresh token is not empty.
SourcesRegistries ==
    {<<FileSource>>, <<FileSource, GarminSource>>,
     <<FileSource, StravaSource>>, <<FileSource, GarminSource, StravaSource>>}

\* The URIs handed to resolution, as urlparse splits them: hostname "" stands
\* for None.
UriSchemes == {"file", "garmin", "strava", "https", "http"}
UriHosts == {"", "7", "connect.garmin.com", "www.strava.com", "strava.com", "example.com"}
UriPaths == {"", "/activities/7"}
Uris == [scheme : UriSchemes, hostname : UriHosts, path : UriPaths]
NoUri == [scheme |-> "", hostname |-> "", path |-> ""]

\* int(text) succeeds.
IsNumber(text) == text = "7"

\* parts.path.split('/')[-1]
LastSegment(path) == IF path = "/activities/7" THEN "7" ELSE ""

\* strava.py:36-42 -- the activity id is read from the URI; ValueError when the
\* scheme is neither strava nor https or the text is not a number.
StravaUriParses(uri) ==
    IF uri.scheme = "strava" THEN IsNumber(uri.hostname)
    ELSE IF uri.scheme = "https" THEN IsNumber(LastSegment(uri.path))
    ELSE FALSE

\* strava.py:44-52 -- what client.get_activity gives: an activity, an activity
\* whose elapsed_time or distance is 0, one without external_id, None, or an
\* exception.
ActivityLookups == {"found", "zero", "no_external_id", "none", "raises"}

\* sources.py:35 -- StravaSource(client, sources): downstream_sources is the
\* list being built, to which the StravaSource itself is then appended.
DownstreamSources(sources, self) == sources

\* base.py:46-58, garmin.py:66-112 -- what find_activity can give: only
\* GarminSource overrides the default, which returns None.
FindOutcomes(source) ==
    IF source.class = "GarminSource" THEN {"none", "found", "raises"} ELSE {"none"}

ReadOutcomes == {"bytes", "raises"}

NotRead == [raises |-> "not called", from |-> 0]

SourceIdle ==
    /\ s_pc = "idle"
    /\ s_sources = <<>>
    /\ s_uri = NoUri
    /\ s_resolved = 0
    /\ s_next = 0
    /\ s_finds = <<>>
    /\ s_reads = <<>>
    /\ s_result = NotRead

\* cli.py:38-43 -- get_source_for_uri(uri, sources)
ResolveUri(sources, uri) ==
    /\ s_pc = "idle"
    /\ s_sources' = sources
    /\ s_uri' = uri
    /\ s_resolved' = GetSourceForUri(sources, uri)
    /\ s_pc' = "resolved"
    /\ UNCHANGED <<s_next, s_finds, s_reads, s_result>>

StravaResolved ==
    /\ s_pc = "resolved"
    /\ s_resolved # 0
    /\ s_sources[s_resolved].class = "StravaSource"
    /\ s_sources \in SourcesRegistries

\* strava.py:25-52 -- read_activity of the resolved StravaSource up to the loop
\* over downstream_sources.
StravaReadStarts(lookup) ==
    /\ StravaResolved
    /\ IF ~StravaUriParses(s_uri)
       THEN s_pc' = "done" /\ s_result' = [raises |-> "ValueError", from |-> 0]
            /\ UNCHANGED s_next
       ELSE IF lookup \in {"none", "no_external_id"}
       THEN s_pc' = "done" /\ s_result' = [raises |-> "ValueError", from |-> 0]
            /\ UNCHANGED s_next
       ELSE IF lookup = "raises"
       THEN s_pc' = "done" /\ s_result' = [raises |-> "Exception", from |-> 0]
            /\ UNCHANGED s_next
       ELSE IF lookup = "zero"
            /\ DownstreamSources(s_sources, s_resolved) # <<>>
       THEN s_pc' = "done" /\ s_result' = [raises |-> "AssertionError", from |-> 0]
            /\ UNCHANGED s_next
       ELSE IF DownstreamSources(s_sources, s_resolved) = <<>>
       THEN s_pc' = "done" /\ s_result' = [raises |-> "ValueError", from |-> 0]
            /\ UNCHANGED s_next
       ELSE s_pc' = "finding" /\ s_next' = 1 /\ UNCHANGED s_result
    /\ UNCHANGED <<s_sources, s_uri, s_resolved, s_finds, s_reads>>

\* strava.py:54-68 -- one pass of the loop: find_activity of the next downstream
\* source returns or raises.
FindActivityReturns(outcome) ==
    LET downstream == DownstreamSources(s_sources, s_resolved) IN
    /\ s_pc = "finding"
    /\ outcome \in FindOutcomes(downstream[s_next])
    /\ s_finds' = Append(s_finds, downstream[s_next].class)
    /\ IF outcome = "found"
       THEN s_pc' = "reading" /\ UNCHANGED <<s_next, s_result>>
       ELSE IF outcome = "raises"
       THEN s_pc' = "done" /\ s_result' = [raises |-> "Exception", from |-> 0]
            /\ UNCHANGED s_next
       ELSE IF s_next < Len(downstream)
       THEN s_next' = s_next + 1 /\ UNCHANGED <<s_pc, s_result>>
       ELSE s_pc' = "done" /\ s_result' = [raises |-> "ValueError", from |-> 0]
            /\ UNCHANGED s_next
    /\ UNCHANGED <<s_sources, s_uri, s_resolved, s_reads>>

\* strava.py:69 -- return source.read_activity(downstream_uri)
DownstreamReadReturns(outcome) ==
    LET downstream == DownstreamSources(s_sources, s_resolved) IN
    /\ s_pc = "reading"
    /\ s_reads' = Append(s_reads, downstream[s_next].class)
    /\ s_result' = IF outcome = "bytes" THEN [raises |-> "", from |-> s_next]
                   ELSE [raises |-> "Exception", from |-> s_next]
    /\ s_pc' = "done"
    /\ UNCHANGED <<s_sources, s_uri, s_resolved, s_next, s_finds>>

\* garmin.py:47-53 -- the activity id is read from the URI as text (no int());
\* ValueError 'Invalid URI' when the scheme is neither garmin nor https.
GarminUriParses(uri) == uri.scheme \in {"garmin", "https"}

\* file.py:20 -- pathlib.Path.from_uri(uri) raises ValueError unless the URI
\* starts with 'file:'.
FileUriParses(uri) == uri.scheme = "file"

\* read_activity of the source gets an activity identifier out of the URI.
UriParses(source, uri) ==
    IF source.class = "StravaSource" THEN StravaUriParses(uri)
    ELSE IF source.class = "GarminSource" THEN GarminUriParses(uri)
    ELSE FileUriParses(uri)

\* cli.py:87, garmin.py:38-64, file.py:11-21 -- read_activity of the resolved
\* source when it is a GarminSource or a FileSource: the URI is taken apart,
\* then the download or the file read returns the bytes or raises.
ReadActivity(outcome) ==
    /\ s_pc = "resolved"
    /\ s_resolved # 0
    /\ s_sources[s_resolved].class # "StravaSource"
    /\ s_pc' = "done"
    /\ s_result' = IF ~UriParses(s_sources[s_resolved], s_uri)
                   THEN [raises |-> "ValueError", from |-> 0]
                   ELSE IF outcome = "bytes" THEN [raises |-> "", from |-> s_resolved]
                   ELSE [raises |-> "Exception", from |-> s_resolved]
    /\ UNCHANGED <<s_sources, s_uri, s_resolved, s_next, s_finds, s_reads>>

\* The next URI.
SourcesOver ==
    /\ s_pc \in {"resolved", "done"}
    /\ s_pc' = "idle"
    /\ s_sources' = <<>>
    /\ s_uri' = NoUri
    /\ s_resolved' = 0
    /\ s_next' = 0
    /\ s_finds' = <<>>
    /\ s_reads' = <<>>
    /\ s_result' = NotRead

\* =========================================================================
\*  GarminSource.find_activity (source/garmin.py)
\* =========================================================================

MaxListed == 2
\* garmin.py:98, 102 -- the tolerances, in seconds and in metres.
elapsed_tolerance == 60
distance_tolerance == 100

\* Calendar days, counted from the target's day.
Days == {-1, 0, 1}

\* The activity asked for: its day, elapsed time and distance.
Targets == [date : {0}, elapsed_time_in_s : {3600}, distance_in_m : {50000}]

\* An activity of the provider: its day, `duration` and `distance`.
GarminActivities ==
    [day : Days, duration : {3530, 3540, 3550, 3661},
     distance : {49899, 49900, 50050, 50101}]

\* garmin.py:88-90 -- get_activities_by_date(startdate, enddate): the provider
\* lists activities of the days from startdate to enddate, both included.
ListedFor(activity, date) == date <= activity.day /\ activity.day <= date + 1

Listings(date) ==
    UNION {[1..n -> {a \in GarminActivities : ListedFor(a, date)}] : n \in 0..MaxListed}

Abs(n) == IF n < 0 THEN -n ELSE n

WithinTolerance_strict(activity, target) ==
    /\ Abs(activity.duration - target.elapsed_time_in_s) < elapsed_tolerance
    /\ Abs(activity.distance - target.distance_in_m) < distance_tolerance

\* garmin.py:97-103 -- the two checks an activity has to pass.
WithinTolerance(activity, target) ==
    /\ ~(Abs(activity.duration - target.elapsed_time_in_s) > elapsed_tolerance)
    /\ ~(Abs(activity.distance - target.distance_in_m) > distance_tolerance)

\* garmin.py:92-114 -- the loop over the listing from position i on.
RECURSIVE FindFrom(_, _, _)
FindFrom(listing, target, i) ==
    IF i > Len(listing) THEN 0
    ELSE IF WithinTolerance(listing[i], target) THEN i
    ELSE FindFrom(listing, target, i + 1)

FindActivity(listing, target) == FindFrom(listing, target, 1)

NoTarget == [date |-> 0, elapsed_time_in_s |-> 0, distance_in_m |-> 0]

FindIdle ==
    /\ g_pc = "idle"
    /\ g_target = NoTarget
    /\ g_listing = <<>>
    /\ g_result = 0

\* garmin.py:66-114 -- find_activity(date, elapsed_time_in_s, distance_in_m)
\* when the provider answers with `listing`.
CallFindActivity(target, listing) ==
    /\ g_pc = "idle"
    /\ g_target' = target
    /\ g_listing' = listing
    /\ g_result' = FindActivity(listing, target)
    /\ g_pc' = "returned"

\* The next call.
FindOver ==
    /\ g_pc = "returned"
    /\ g_pc' = "idle"
    /\ g_target' = NoTarget
    /\ g_listing' = <<>>
    /\ g_result' = 0

\* =========================================================================
\*  WebhookServer (webhook/server.py:143-197)
\* =========================================================================

MaxServerCalls == 4

StartRefused_never(server) == FALSE

\* server.py:156-157 -- `if self.server is not None: raise RuntimeError`
StartRefused(server) == server

\* server.py:170 -- socketserver.TCPServer(('', port), ...) binds the port, or
\* raises OSError when it cannot.
BindOutcomes == {"bound", "OSError"}

ServerCall(op, running, result) == [op |-> op, running |-> running, result |-> result]

ServerStopped ==
    /\ w_server = FALSE
    /\ w_thread = FALSE
    /\ w_history = <<>>

\* server.py:154-174 -- start(); server.py:192-194 -- __enter__ calls it.
ServerStart(op, bind) ==
    /\ Len(w_history) < MaxServerCalls
    /\ IF StartRefused(w_server)
       THEN /\ w_history' = Append(w_history, ServerCall(op, w_server, "RuntimeError"))
            /\ UNCHANGED <<w_server, w_thread>>
       ELSE IF bind = "OSError"
       THEN /\ w_history' = Append(w_history, ServerCall(op, w_server, "OSError"))
            /\ UNCHANGED <<w_server, w_thread>>
       ELSE /\ w_server' = TRUE
            /\ w_thread' = TRUE
            /\ w_history' = Append(w_history, ServerCall(op, w_server, "started"))

\* server.py:176-190 -- stop(); server.py:196-197 -- __exit__ calls it.
ServerStop(op) ==
    /\ Len(w_history) < MaxServerCalls
    /\ IF ~w_server
       THEN /\ w_history' = Append(w_history, ServerCall(op, w_server, "nothing"))
            /\ UNCHANGED <<w_server, w_thread>>
       ELSE /\ w_server' = FALSE
            /\ w_thread' = FALSE
            /\ w_history' = Append(w_history, ServerCall(op, w_server, "stopped"))

DecodingAtRest == DeviceIdle /\ FitIdle /\ SourceIdle /\ FindIdle /\ ServerStopped

\* ---- the subscription manager
Init == MgrInit /\ HandlerIdle /\ AppAtRest /\ ProcIdle /\ PublishIdle /\ DecodingAtRest

Next ==
    \/ \E c \in Calls : EnsureStart(c) /\ UNCHANGED outside_mgr
    \/ \E c \in Calls : DeleteStart(c) /\ UNCHANGED outside_mgr
    \/ \E c \in Calls : LockGranted(c) /\ UNCHANGED outside_mgr
    \/ \E c \in Calls : ListOk(c) /\ UNCHANGED outside_mgr
    \/ \E c \in Calls : ListFail(c) /\ UNCHANGED outside_mgr
    \/ \E c \in Calls : CreateOk(c) /\ UNCHANGED outside_mgr
    \/ \E c \in Calls : CreateFail(c) /\ UNCHANGED outside_mgr
    \/ \E c \in Calls : SleepDone(c) /\ UNCHANGED outside_mgr
    \/ \E c \in Calls : DeleteEnds(c) /\ UNCHANGED outside_mgr
    \/ \E c \in Calls : Forget(c) /\ UNCHANGED outside_mgr

Spec == Init /\ [][Next]_vars

\* ---- the webhook handler: requests arrive one after the other on the
\* TCPServer's single thread
HandlerInit == MgrAtRest /\ HandlerIdle /\ AppAtRest /\ ProcIdle /\ PublishIdle /\ DecodingAtRest

HandlerNext ==
    \/ \E req \in PostRequests : DoPost(req) /\ UNCHANGED outside_handler
    \/ \E req \in GetRequests : DoGet(req) /\ UNCHANGED outside_handler
    \/ CallbackReturns /\ UNCHANGED outside_handler
    \/ CallbackRaises /\ UNCHANGED outside_handler
    \/ NextRequest /\ UNCHANGED outside_handler

SpecHandler == HandlerInit /\ [][HandlerNext]_vars

\* ---- the FastAPI application: lifespan, the registration task, verification
\* requests and shutdown, on the manager above
AppNext ==
    \/ LifespanStartup /\ UNCHANGED outside_app
    \/ RegisterStarts /\ UNCHANGED outside_app
    \/ \E step \in RegisterSteps : RegisterStep(step) /\ UNCHANGED outside_app
    \/ \E req \in VerifyRequests : VerifySubscription(req) /\ UNCHANGED outside_app
    \/ Healthz /\ UNCHANGED outside_app
    \/ ReplySent /\ UNCHANGED outside_app
    \/ \E c \in Calls : Shutdown(c) /\ UNCHANGED outside_app
    \/ \E c \in Calls : ShutdownStep(c, "LockGranted") /\ UNCHANGED outside_app
    \/ \E c \in Calls : ShutdownStep(c, "DeleteEnds") /\ UNCHANGED outside_app
    \/ \E c \in Calls : ResultTaken(c) /\ UNCHANGED outside_app

AppInit == AppStart /\ HandlerIdle /\ ProcIdle /\ PublishIdle /\ DecodingAtRest

SpecApp == AppInit /\ [][AppNext]_vars

\* The steps the application takes by itself; requests and the signal to stop
\* come from outside.
AppInternal ==
    \/ LifespanStartup /\ UNCHANGED outside_app
    \/ RegisterStarts /\ UNCHANGED outside_app
    \/ \E step \in RegisterSteps : RegisterStep(step) /\ UNCHANGED outside_app
    \/ ReplySent /\ UNCHANGED outside_app
    \/ \E c \in Calls : ShutdownStep(c, "LockGranted") /\ UNCHANGED outside_app
    \/ \E c \in Calls : ShutdownStep(c, "DeleteEnds") /\ UNCHANGED outside_app
    \/ \E c \in Calls : ResultTaken(c) /\ UNCHANGED outside_app

SpecAppFair == SpecApp /\ WF_vars(AppInternal)

\* ---- webhook-triggered processing: one run after the other
ProcInit == MgrAtRest /\ HandlerIdle /\ AppAtRest /\ ProcIdle /\ PublishIdle /\ DecodingAtRest

ProcNext ==
    \/ \E sources \in Registries, mqtt \in BOOLEAN, event \in ProcessorEvents :
            ProcessWebhookEvent(sources, mqtt, event)
            /\ UNCHANGED <<ingress_vars, outside_proc>>
    \/ p_pc = "idle" /\ \E delivery \in Deliveries, init \in InitOutcomes, mqtt \in BOOLEAN :
            HandleEvent(delivery, init, mqtt) /\ UNCHANGED outside_proc
    \/ \E content \in ActivityBytes :
            ReadReturns(content) /\ UNCHANGED <<ingress_vars, outside_proc>>
    \/ \E exc \in Exceptions : ReadRaises(exc) /\ UNCHANGED <<ingress_vars, outside_proc>>
    \/ PublishReturns /\ UNCHANGED <<ingress_vars, outside_proc>>
    \/ \E exc \in Exceptions : PublishRaises(exc) /\ UNCHANGED <<ingress_vars, outside_proc>>
    \/ RunOver /\ UNCHANGED outside_proc

SpecProcessor == ProcInit /\ [][ProcNext]_vars

\* ---- MQTTClient.publish: one call after the other
PublishInit == MgrAtRest /\ HandlerIdle /\ AppAtRest /\ ProcIdle /\ PublishIdle /\ DecodingAtRest

PublishNext ==
    \/ \E retries \in RetryCounts : PublishCall(retries) /\ UNCHANGED outside_publish
    \/ \E outcome \in AttemptOutcomes : Attempt(outcome) /\ UNCHANGED outside_publish
    \/ SleepReturns /\ UNCHANGED outside_publish
    \/ PublishOver /\ UNCHANGED outside_publish

SpecPublish == PublishInit /\ [][PublishNext]_vars

\* A call of publish that has begun keeps running: the transport's publish and
\* time.sleep return.
PublishRuns ==
    \/ \E outcome \in AttemptOutcomes : Attempt(outcome) /\ UNCHANGED outside_publish
    \/ SleepReturns /\ UNCHANGED outside_publish

SpecPublishFair == SpecPublish /\ WF_vars(PublishRuns)

\* ---- one device-information record after the other: derivation, then
\* publish_on_mqtt
DeviceInit ==
    MgrAtRest /\ HandlerIdle /\ AppAtRest /\ ProcIdle /\ PublishIdle /\ DecodingAtRest

DeviceNext ==
    \/ d_pc = "idle" /\ \E r \in DeviceRecords :
          ModelValidate(r) /\ UNCHANGED outside_device
    \/ \E result \in PublishResults : PublishStatus(result) /\ UNCHANGED outside_device
    \/ \E result \in PublishResults : PublishDiscovery(result) /\ UNCHANGED outside_device
    \/ DeviceOver /\ UNCHANGED outside_device

SpecDevice == DeviceInit /\ [][DeviceNext]_vars

\* publish_on_mqtt runs to its end once called.
DeviceRuns ==
    \/ \E result \in PublishResults : PublishDiscovery(result) /\ UNCHANGED outside_device

SpecDeviceFair == SpecDevice /\ WF_vars(DeviceRuns)

\* ---- one FitFile after the other: construction, then get_devices_status
FitInit ==
    MgrAtRest /\ HandlerIdle /\ AppAtRest /\ ProcIdle /\ PublishIdle /\ DecodingAtRest

FitNext ==
    \/ f_pc = "idle" /\ \E messages \in MessageSets :
          Construct(messages) /\ UNCHANGED outside_fit
    \/ f_pc = "constructed" /\ \E device_info \in DeviceInfos :
          CallGetDevicesStatus(device_info) /\ UNCHANGED outside_fit
    \/ FitOver /\ UNCHANGED outside_fit

SpecFitFile == FitInit /\ [][FitNext]_vars

\* ---- one URI after the other: resolution, then read_activity when the
\* source is the StravaSource
SourceInit ==
    MgrAtRest /\ HandlerIdle /\ AppAtRest /\ ProcIdle /\ PublishIdle /\ DecodingAtRest

SourceNext ==
    \/ s_pc = "idle" /\ \E sources \in Registries \cup SourcesRegistries : \E uri \in Uris :
          ResolveUri(sources, uri) /\ UNCHANGED outside_src
    \/ \E lookup \in ActivityLookups : StravaReadStarts(lookup) /\ UNCHANGED outside_src
    \/ \E outcome \in {"none", "found", "raises"} :
          FindActivityReturns(outcome) /\ UNCHANGED outside_src
    \/ \E outcome \in ReadOutcomes : DownstreamReadReturns(outcome) /\ UNCHANGED outside_src
    \/ \E outcome \in ReadOutcomes : ReadActivity(outcome) /\ UNCHANGED outside_src
    \/ SourcesOver /\ UNCHANGED outside_src

SpecSource == SourceInit /\ [][SourceNext]_vars

\* ---- one find_activity call after the other
FindInit ==
    MgrAtRest /\ HandlerIdle /\ AppAtRest /\ ProcIdle /\ PublishIdle /\ DecodingAtRest

FindNext ==
    \/ g_pc = "idle" /\ \E target \in Targets : \E listing \in Listings(target.date) :
          CallFindActivity(target, listing) /\ UNCHANGED outside_find
    \/ FindOver /\ UNCHANGED outside_find

SpecFind == FindInit /\ [][FindNext]_vars

\* ---- any sequence of start and stop calls on one WebhookServer
ServerInit ==
    MgrAtRest /\ HandlerIdle /\ AppAtRest /\ ProcIdle /\ PublishIdle /\ DecodingAtRest

ServerNext ==
    \/ \E op \in {"start", "__enter__"} : \E bind \in BindOutcomes :
          ServerStart(op, bind) /\ UNCHANGED outside_server
    \/ \E op \in {"stop", "__exit__"} : ServerStop(op) /\ UNCHANGED outside_server

SpecServer == ServerInit /\ [][ServerNext]_vars

\* =========================================================================
\*  Properties of the subscription manager (checked under Spec)
\* =========================================================================

\* Call b waited for the lock behind the ensure_subscription call recorded in
\* call[b].pred, and the two were the only calls in progress: the first started
\* with no call in progress, the second while only the first was.
TwoConcurrentEnsures(b) ==
    /\ call[b].kind = "ensure"
    /\ call[b].waited
    /\ call[b].pred.kind = "ensure"
    /\ call[b].pred.nOthers = 0
    /\ call[b].nOthers = 1

\* Both calls of a concurrent pair started with an empty cache and no
\* subscription for the callback URL at the provider, and both have returned.
BothReturnedFromEmpty(b) ==
    /\ TwoConcurrentEnsures(b)
    /\ call[b].pred.emptyAtStart /\ call[b].emptyAtStart
    /\ call[b].pred.pc = "returned" /\ call[b].pc = "returned"

\* C1 as stated -- two ensure_subscription calls run concurrently, starting with
\* an empty cache and with no subscription for the callback URL at the
\* provider: across both calls exactly one create request is sent, and both
\* return the same id.
C1_ExactlyOneCreateSent ==
    \A b \in Calls :
        BothReturnedFromEmpty(b)
        => /\ call[b].result = call[b].pred.result
           /\ call[b].pred.nCreate + call[b].nCreate = 1

\* C1 amended -- under the same conditions both calls return the same id, the
\* second call sends no request, exactly one create request succeeds, and
\* every other create request sent is one that failed and was sent again by
\* _retry; with no failed create request exactly one is sent.
C1_OneCreateSameId ==
    \A b \in Calls :
        BothReturnedFromEmpty(b)
        => /\ call[b].result = call[b].pred.result
           /\ call[b].result # None
           /\ call[b].nList = 0 /\ call[b].nCreate = 0
           /\ call[b].pred.nCreate - call[b].pred.nCreateFailed = 1
           /\ (call[b].pred.nCreateFailed = 0 => call[b].pred.nCreate + call[b].nCreate = 1)

C1_Witness ==
    \E b \in Calls :
        /\ BothReturnedFromEmpty(b)
        /\ call[b].pred.nCreateFailed = 0
        /\ call[b].pred.nCreate = 1 /\ call[b].nCreate = 0
        /\ call[b].result = call[b].pred.result

\* C2 as stated -- an ensure_subscription call that waited for the lock behind
\* another ensure_subscription call sends no list and no create request and
\* ends as the first call ended, whatever that outcome was.
C2_SecondCopiesAnyOutcome ==
    \A b \in Calls :
        (call[b].kind = "ensure" /\ Done(b) /\ call[b].waited /\ call[b].pred.kind = "ensure")
        => /\ call[b].nList = 0 /\ call[b].nCreate = 0
           /\ call[b].pc = call[b].pred.pc
           /\ call[b].result = call[b].pred.result

\* C2 amended -- an ensure_subscription call that waited for the lock and took it
\* from an ensure_subscription call that returned an id sends no list and no
\* create request and returns that id; at no moment has it sent a request.
C2_SecondCopiesReturnedId ==
    \A b \in Calls :
        (/\ call[b].kind = "ensure" /\ call[b].waited /\ call[b].pc # "waitlock"
         /\ call[b].pred.kind = "ensure" /\ call[b].pred.pc = "returned")
        => /\ call[b].nList = 0 /\ call[b].nCreate = 0
           /\ call[b].pc = "returned"
           /\ call[b].result = call[b].pred.result

C2_Witness ==
    \E b \in Calls :
        /\ call[b].kind = "ensure" /\ call[b].waited /\ call[b].pc = "returned"
        /\ call[b].pred.kind = "ensure" /\ call[b].pred.pc = "returned"
        /\ call[b].pred.nCreate = 1
        /\ call[b].nList = 0 /\ call[b].nCreate = 0
        /\ call[b].result = call[b].pred.result /\ call[b].result # None

\* C8 as stated -- an ensure_subscription call that found the cache empty and
\* whose list response held a subscription with the manager's callback URL
\* (matchId, whatever integer it is) sends no create request, and caches and
\* returns that id.
C8_ReattachAnyId ==
    \A c \in Calls :
        (/\ call[c].kind = "ensure" /\ call[c].cacheAtAcquire = None
         /\ call[c].listed /\ call[c].matchId # None)
        => /\ call[c].nCreate = 0
           /\ call[c].pc = "returned"
           /\ call[c].result = call[c].matchId
           /\ call[c].cacheAtEnd = call[c].matchId

\* C9 -- an ensure_subscription call made after an ensure_subscription call has
\* returned an id (expect), with no delete_subscription body run since, returns
\* that id and sends no request to the provider.
C9_LaterCallsHitCache ==
    \A c \in Calls :
        (call[c].kind = "ensure" /\ call[c].expect # None /\ call[c].pc # "waitlock")
        => /\ call[c].pc = "returned"
           /\ call[c].result = call[c].expect
           /\ call[c].nList = 0 /\ call[c].nCreate = 0 /\ call[c].nDelete = 0

C9_Witness ==
    \E c \in Calls :
        /\ call[c].kind = "ensure" /\ call[c].pc = "returned"
        /\ call[c].expect # None
        /\ call[c].result = call[c].expect
        /\ call[c].nList = 0 /\ call[c].nCreate = 0

\* C10 as stated -- a delete_subscription call sends no request when no id is
\* cached, and when an id is cached the cache is empty when the call ends,
\* whatever the outcome of the delete request.
C10_DeleteAlwaysClears ==
    \A c \in Calls :
        (call[c].kind = "delete" /\ Done(c))
        => /\ (call[c].cacheAtAcquire = None => call[c].nDelete = 0)
           /\ (call[c].cacheAtAcquire # None => call[c].cacheAtEnd = None)

\* The delete request of a delete_subscription call failed: a status other
\* than 200, 204 and 404, or a transport failure.
DeleteFailed(c) ==
    /\ call[c].kind = "delete"
    /\ Done(c)
    /\ call[c].deleteOutcome \in {"500", "exception", "exception_removed"}

\* C11 as stated -- a delete_subscription call whose delete request failed
\* raises to its caller.
C11_DeleteFailureRaised ==
    \A c \in Calls : DeleteFailed(c) => call[c].pc = "raised"

\* C12 -- an ensure_subscription call that fails has raised and leaves the
\* cache empty; the call that takes the lock from it sends a list request
\* before it ends; a call that fails on a missing client id, client secret or
\* callback URL has sent no request, and no verify token has been generated.
C12_FailedEnsureLeavesNothing ==
    \A c \in Calls :
        /\ (call[c].kind = "ensure" /\ call[c].pc = "raised")
            => /\ call[c].cacheAtEnd = None
               /\ subscription_id = None
               /\ call[c].result = None
               /\ (client_id = "" \/ client_secret = "" \/ callback_url = "")
                    => /\ call[c].nList = 0 /\ call[c].nCreate = 0
                       /\ verify_token # "generated"
        /\ (/\ call[c].kind = "ensure" /\ call[c].waited /\ call[c].pc # "waitlock"
            /\ call[c].pred.kind = "ensure" /\ call[c].pred.pc = "raised")
            => call[c].cacheAtAcquire = None /\ call[c].nList >= 1

C12_Witness ==
    \E c \in Calls :
        /\ call[c].kind = "ensure" /\ call[c].waited /\ call[c].pc = "returned"
        /\ call[c].pred.kind = "ensure" /\ call[c].pred.pc = "raised"
        /\ call[c].nList >= 1

C12_WitnessMissingConfig ==
    \E c \in Calls :
        /\ call[c].kind = "ensure" /\ call[c].pc = "raised"
        /\ callback_url = "" /\ call[c].nList = 0 /\ verify_token = ""

\* The waits the claim prescribes after the first n failed calls of one _retry.
Waits(n) == [k \in 1..n |-> base_delay * (2 ^ (k - 1))]

\* The number of _retry sleeps of a call's create phase that have begun.
Pos(n) == IF n > 0 THEN n ELSE 0

\* C13 -- _retry calls the wrapped request at most `attempts` times, goes on
\* (returns) at the first success without repeating the request, waits
\* base_delay * 2^(k-1) after the k-th failed request for k < attempts, and
\* raises after the attempts-th failed request without a further wait.
C13_RetryBackoff ==
    \A c \in Calls :
        call[c].kind = "ensure" =>
            LET r == call[c]
                list_waits == Waits(IF r.pc = "list_sleep" THEN r.nList ELSE Pos(r.nList - 1))
                create_waits == Waits(IF r.pc = "create_sleep" THEN r.nCreate
                                      ELSE Pos(r.nCreate - 1))
            IN /\ r.nList <= attempts /\ r.nCreate <= attempts
               /\ r.sleeps = list_waits \o create_waits
               /\ r.pc \in {"list_sleep"} => r.nList < attempts
               /\ r.pc \in {"create_sleep"} => r.nCreate < attempts
               /\ (r.pc = "raised" /\ r.nList > 0)
                    => IF r.nCreate = 0 THEN r.nList = attempts ELSE r.nCreate = attempts
               /\ (r.pc = "returned" /\ r.nCreate > 0)
                    => r.nCreate - r.nCreateFailed = 1

C13_Witness ==
    \E c \in Calls :
        /\ call[c].kind = "ensure" /\ call[c].pc = "raised"
        /\ attempts = MaxAttempts /\ call[c].nList = MaxAttempts
        /\ Len(call[c].sleeps) = MaxAttempts - 1
        /\ call[c].sleeps[1] = base_delay /\ call[c].sleeps[2] = 2 * base_delay

\* C14 as stated -- a delete request that fails is sent again through _retry,
\* up to `attempts` requests, like a list or create request.
C14_DeleteRetried ==
    \A c \in Calls : (DeleteFailed(c) /\ attempts > 1) => call[c].nDelete = attempts

\* =========================================================================
\*  Properties of the webhook handler (checked under SpecHandler)
\* =========================================================================

\* The X-Hub-Signature header equals the HMAC-SHA256 of the raw body under the
\* client secret.
SignatureMatches(req) == req.signature = Hmac(ConfiguredClientSecret, BodyRead(req))

\* The body is JSON text that is not a schema-valid event.
MalformedOrInvalid(body) ==
    \/ body.kind \in {"empty", "malformed", "array"}
    \/ body.kind = "object" /\ ~SchemaValid(body)

\* A POST with a readable Content-Length whose signature verifies and whose
\* body is a schema-valid event.
ValidDelivery(req) ==
    /\ req.method = "POST"
    /\ req.content_length # "not_a_number"
    /\ SignatureMatches(req)
    /\ SchemaValid(BodyRead(req))

\* C3 as stated -- do_POST calls the event callback only for a request whose
\* signature matches and whose body is a schema-valid event; a request (with a
\* readable Content-Length) whose signature is missing or does not match is
\* answered 403, one with a matching signature and malformed JSON or a schema
\* violation 400, and for neither is the callback called.
C3_CallbackOnlyIfValid ==
    h_req.method = "POST" =>
        /\ (h_cb_calls > 0 => SignatureMatches(h_req) /\ SchemaValid(BodyRead(h_req)))
        /\ (h_sent /\ h_req.content_length # "not_a_number" /\ ~SignatureMatches(h_req)
                => h_status = 403 /\ h_cb_calls = 0)
        /\ (h_sent /\ h_req.content_length # "not_a_number" /\ SignatureMatches(h_req)
                   /\ MalformedOrInvalid(BodyRead(h_req))
                => h_status = 400 /\ h_cb_calls = 0)

\* C4 as stated -- while the processing of a validated delivery is running, the
\* 200 response is not held back by it: the handler can send it with the
\* processing still running.
C4_ResponseNotBlocked ==
    h_pc = "callback" =>
        \/ h_sent /\ h_status = 200
        \/ ENABLED (HandlerNext /\ h_pc' = "callback" /\ h_sent' /\ h_status' = 200)

\* C5 as stated -- the response to a validated delivery is 200 {"status": "ok"},
\* whether the event callback returns or raises.
C5_ResponseUnaffected ==
    (ValidDelivery(h_req) /\ h_sent) => (h_status = 200 /\ h_body = StatusOkBody)

\* C6 as stated -- for a validated delivery the event callback is called exactly
\* once, with the event parsed from the body, and the response is 200
\* {"status": "ok"}.
C6_CalledOnceAndOk ==
    (ValidDelivery(h_req) /\ h_pc = "responded")
        => /\ h_cb_calls = 1
           /\ h_cb_event = ParseEvent(BodyRead(h_req))
           /\ h_status = 200
           /\ h_body = StatusOkBody

\* C7 as stated -- a verification request that carries hub.mode, hub.challenge
\* and hub.verify_token (once each, any strings) is answered 400 if the mode
\* is not "subscribe", else 403 if the token is not the configured one, else
\* 200 with {"hub.challenge": <the challenge sent>}.
C7_VerificationOrder ==
    (/\ h_req.method = "GET" /\ h_sent
     /\ Len(h_req.mode) = 1 /\ Len(h_req.challenge) = 1 /\ Len(h_req.token) = 1)
    => IF h_req.mode[1] # "subscribe" THEN h_status = 400
       ELSE IF h_req.token[1] # ConfiguredVerifyToken THEN h_status = 403
       ELSE h_status = 200 /\ h_body = <<"hub.challenge", h_req.challenge[1]>>

\* =========================================================================
\*  Properties of the FastAPI application (checked under SpecApp, SpecAppFair)
\* =========================================================================

\* C15 as stated -- when ensure_subscription fails in the registration task
\* at startup, the process does not go on serving: it comes to a stop.
C15_StartupFailureStops == (a_task = "failed") ~> (a_proc = "stopped")

\* No verify token was supplied: STRAVA_VERIFY_TOKEN is unset or empty.
NoTokenSupplied == env_verify_token \in {Absent, <<"">>}

\* C16 -- with no verify token supplied, ensure_subscription has generated one
\* before any of its requests is sent, the create request carries it, and from
\* then on (the create request in flight included) verify_subscription echoes
\* the challenge exactly for mode "subscribe" with that token.
C16_GeneratedTokenInForce ==
    NoTokenSupplied =>
        /\ \A c \in Calls :
            /\ call[c].nList > 0 => verify_token = "generated"
            /\ call[c].nCreate > 0 => call[c].createToken = "generated"
        /\ (Replied /\ verify_token = "generated")
            => (a_reply.kind = "challenge"
                    <=> (a_reply.req.mode = <<"subscribe">>
                            /\ a_reply.req.token = <<"generated">>))

C16_Witness ==
    /\ NoTokenSupplied
    /\ call[TaskCall].pc = "create"
    /\ call[TaskCall].createToken = "generated"
    /\ Replied
    /\ a_reply.kind = "challenge"
    /\ a_reply.req.token = <<"generated">>

\* =========================================================================
\*  Properties of webhook-triggered processing (checked under SpecProcessor)
\* =========================================================================

\* A run of ActivityProcessor.process_webhook_event is under way or has ended.
ProcessorRun == p_pc # "idle" /\ p_run.impl = "ActivityProcessor"

RunEnded == p_pc \in {"returned", "raised"}

\* The event of the run is an activity-create event.
ActivityCreate == p_run.event.object_type = "activity" /\ p_run.event.aspect_type = "create"

\* C17 -- for an event whose object_type is not "activity" or whose aspect_type
\* is not "create", process_webhook_event returns with no source resolved,
\* nothing read, nothing decoded, nothing published and nothing raised.
C17_OtherEventsIgnored ==
    (ProcessorRun /\ ~ActivityCreate)
        => /\ p_pc = "returned"
           /\ ~p_run.resolved
           /\ p_reads = <<>> /\ p_decoded = <<>> /\ p_devices = <<>> /\ p_published = <<>>
           /\ p_failed = ""

C17_Witness ==
    /\ ProcessorRun /\ p_pc = "returned"
    /\ p_run.event.object_type = "activity" /\ p_run.event.aspect_type = "update"
    /\ p_run.sources = <<StravaSource>>
    /\ p_reads = <<>>

\* Source i is the first of the run's sources that matches the reference
\* strava://<object_id>.
FirstMatching(i) ==
    /\ i \in DOMAIN p_run.sources
    /\ MatchesUri(p_run.sources[i], StravaUri(p_run.event.object_id))
    /\ \A j \in 1..(i - 1) : ~MatchesUri(p_run.sources[j], StravaUri(p_run.event.object_id))

\* The run of an activity-create event for which a source matches has read the
\* activity once, through the first matching source and with the reference
\* strava://<object_id>, and what it decoded is the content read.
ReadOnceThroughFirst ==
    /\ Len(p_reads) = 1
    /\ FirstMatching(p_reads[1].source)
    /\ p_reads[1].uri = StravaUri(p_run.event.object_id)
    /\ Len(p_decoded) <= 1
    /\ (p_pc = "publish" \/ p_failed \in {"decode", "derive", "publish"}) => Len(p_decoded) = 1

\* C18 as stated -- the run of an activity-create event reads the activity once
\* through the first matching source with strava://<object_id>, decodes the
\* content read and, with a client configured, has published each derived
\* device status once when it ends.
C18_EachStatusPublished ==
    (ProcessorRun /\ ActivityCreate /\ \E i \in DOMAIN p_run.sources : FirstMatching(i))
        => /\ ReadOnceThroughFirst
           /\ (RunEnded /\ p_run.mqtt) => p_published = p_devices

\* C18 amended -- as above, but the device statuses are published in order,
\* each once, up to the first publish_on_mqtt call that raises: that call ends
\* the run and the statuses after it stay unpublished. Without a client
\* nothing is published.
C18_PublishedUntilFailure ==
    (ProcessorRun /\ ActivityCreate /\ \E i \in DOMAIN p_run.sources : FirstMatching(i))
        => /\ ReadOnceThroughFirst
           /\ Len(p_published) <= Len(p_devices)
           /\ \A k \in DOMAIN p_published : p_published[k] = p_devices[k]
           /\ (RunEnded /\ p_run.mqtt /\ p_failed # "publish") => p_published = p_devices
           /\ ~p_run.mqtt => p_published = <<>>

C18_Witness ==
    /\ ProcessorRun /\ ActivityCreate /\ p_pc = "returned"
    /\ p_run.sources = <<FileSource, StravaSource>>
    /\ p_run.mqtt
    /\ p_reads = <<[source |-> 2, uri |-> StravaUri(7)]>>
    /\ Len(p_devices) = MaxDevices
    /\ p_published = p_devices

\* C19 -- a run of webhook-triggered processing (ActivityProcessor and
\* webhook_server._process_activity) never raises to its caller: when source
\* initialisation, reading, decoding, derivation or publishing fails, the run
\* returns, and nothing after the failed step has been done.
C19_FailuresDropped ==
    /\ p_pc # "raised"
    /\ p_failed # "" =>
        /\ p_pc = "returned"
        /\ p_failed = "resolve" => p_reads = <<>>
        /\ p_failed \in {"resolve", "read"} => p_decoded = <<>>
        /\ p_failed \in {"resolve", "read", "decode", "derive"} => p_published = <<>>

C19_Witness ==
    /\ p_run.impl = "ActivityProcessor"
    /\ p_failed = "decode"
    /\ p_decoded = <<[kind |-> "invalid", devices |-> 0]>>
    /\ p_pc = "returned"

C19_WitnessWebhookServer ==
    /\ p_run.impl = "webhook_server"
    /\ p_failed = "resolve"
    /\ p_pc = "returned"

\* =========================================================================
\*  Properties of MQTTClient.publish (checked under SpecPublish, SpecPublishFair)
\* =========================================================================

Failed(outcome) == outcome # "success"

\* C20 -- a call of publish ends, for every retry count and whatever the
\* attempts meet (error code, exception, not connected); it makes at most
\* `retries` attempts, returns True or False and raises nothing, returns True
\* only when its last attempt was a transport publish that reported success, and
\* returns False only after `retries` failed attempts, with a sleep after each
\* of them but the last.
C20_PublishEnds ==
    /\ [](/\ Len(m_outcomes) <= m_retries
          /\ m_sent <= Len(m_outcomes)
          /\ m_pc = "done" => m_result \in {"True", "False"}
          /\ m_result = "True" =>
                /\ m_outcomes # <<>>
                /\ m_outcomes[Len(m_outcomes)] = "success"
                /\ \A k \in 1..(Len(m_outcomes) - 1) : Failed(m_outcomes[k])
          /\ m_result = "False" =>
                /\ Len(m_outcomes) = m_retries
                /\ \A k \in DOMAIN m_outcomes : Failed(m_outcomes[k])
                /\ Len(m_sleeps) = IF m_retries = 0 THEN 0 ELSE m_retries - 1)
    /\ (m_pc \in {"attempt", "sleep"}) ~> (m_pc = "done")

C20_Witness ==
    /\ m_pc = "done"
    /\ m_result = "False"
    /\ m_retries = MaxRetries
    /\ m_outcomes[1] = "rc_error" /\ m_outcomes[2] = "exception"
    /\ m_outcomes[3] = "not_connected"
    /\ Len(m_sleeps) = MaxRetries - 1

\* ---- C21: the waits before a successful publish ---------------------------
RECURSIVE SumOf(_)
SumOf(seq) == IF seq = <<>> THEN 0 ELSE Head(seq) + SumOf(Tail(seq))

FailFailSuccess ==
    /\ m_retries = 3
    /\ Len(m_outcomes) = 3
    /\ Failed(m_outcomes[1]) /\ Failed(m_outcomes[2])
    /\ m_outcomes[3] = "success"

\* C21: with retries = 3, a publish that fails twice and then succeeds gives
\* True after 3 attempts, having waited 1 and then 2; in general the first
\* success, on attempt k, has been preceded by a total wait of 2^(k-1) - 1
\* and no attempt follows it.
C21_WaitsBeforeSuccess ==
    /\ FailFailSuccess => m_result = "True" /\ m_sleeps = <<1, 2>>
    /\ \A k \in DOMAIN m_outcomes :
          m_outcomes[k] = "success" =>
            /\ k = Len(m_outcomes)
            /\ m_pc = "done" /\ m_result = "True"
            /\ \A j \in 1..(k - 1) : Failed(m_outcomes[j])
            /\ SumOf(m_sleeps) = 2 ^ (k - 1) - 1

C21_Witness == FailFailSuccess /\ m_pc = "done"

\* ---- C22: an attempt made while not connected ----------------------------
NotConnectedAt(k) == k \in DOMAIN m_outcomes /\ m_outcomes[k] = "not_connected"

\* C22: an attempt made while not connected hands nothing to the transport,
\* counts as an attempt, and is followed by exactly one wait of 2^attempt
\* (none after the last attempt) before the next attempt.
C22_NotConnectedAttempt ==
    /\ m_sent = Cardinality({k \in DOMAIN m_outcomes : ~NotConnectedAt(k)})
    /\ Len(m_outcomes) <= m_retries
    /\ \A k \in DOMAIN m_outcomes :
          NotConnectedAt(k) =>
            /\ k < m_retries => Len(m_sleeps) >= k /\ m_sleeps[k] = 2 ^ (k - 1)
            /\ k = Len(m_outcomes) =>
                  Len(m_sleeps) = IF k < m_retries THEN k ELSE k - 1
            /\ k = Len(m_outcomes) /\ m_pc = "attempt" => m_attempt = k

C22_Witness ==
    /\ m_retries = 3
    /\ m_outcomes = <<"not_connected", "not_connected", "not_connected">>
    /\ m_sleeps = <<1, 2>>
    /\ m_sent = 0
    /\ m_result = "False"

\* ---- C23: the two publishes of publish_on_mqtt ------------------------------
StatusPublished ==
    /\ Len(d_calls) >= 1
    /\ d_calls[1].result = "True"

DiscoveryFollowed ==
    /\ Len(d_calls) = 2
    /\ d_calls[2].kind = "discovery"
    /\ d_calls[2].topic = "homeassistant/device/strava-" \o d_record.serial_number \o "/config"

\* C23: publish_on_mqtt publishes first on strava/<serial_number>/status and
\* then on homeassistant/device/strava-<serial_number>/config; every successful
\* status publish is followed by one discovery publish for the same device.
C23_StatusThenDiscovery ==
    /\ [](/\ Len(d_calls) <= 2
          /\ Len(d_calls) >= 1 =>
               /\ d_calls[1].kind = "status"
               /\ d_calls[1].topic = "strava/" \o d_record.serial_number \o "/status"
          /\ Len(d_calls) = 2 => DiscoveryFollowed
          /\ StatusPublished => d_pc = "status_published" \/ DiscoveryFollowed)
    /\ (StatusPublished ~> DiscoveryFollowed)

C23_Witness == d_pc = "done" /\ StatusPublished /\ DiscoveryFollowed

\* ---- C24: the battery-level entry of the discovery payload -------------------
DiscoveryCall == Len(d_calls) = 2 /\ d_calls[2].kind = "discovery"

BatteryLevelEntry ==
    ("strava-" \o d_record.serial_number \o "_battery_level") \in d_calls[2].cmps

\* C24: the discovery payload has the battery-level sensor entry exactly when
\* battery_level is known, for every level from 0 to 100.
C24_EntryIffLevelKnown ==
    DiscoveryCall => (BatteryLevelEntry <=> d_record.battery_level # None)

\* ---- C28: the product of a derived DeviceStatus ----------------------------
DerivedStatus == d_pc \in {"derived", "status_published", "done", "raised"}

ExtraProductGiven == d_record.extra_product # Absent

ExtraProductText == PyStr(d_record.extra_product[1])

\* The name the static table has for `code` under the record's manufacturer,
\* `code` itself when it has none.
TableName(code) ==
    IF d_record.manufacturer = "garmin" /\ code = "3592" THEN "varia rtl516"
    ELSE IF d_record.manufacturer = "favero_electronics" /\ code = "22"
    THEN "assioma pro mx-2 spd"
    ELSE code

\* C28: the product is the record's <manufacturer>_product field when present
\* and non-empty, otherwise the table's name for the decoded product code,
\* otherwise the decoded product; a present extra field is never replaced by a
\* table entry.
C28_StrictPrecedence ==
    DerivedStatus =>
        d_status.product =
            IF ExtraProductGiven /\ ExtraProductText # ""
            THEN ExtraProductText
            ELSE TableName(PyStr(d_record.product))

\* C28 as the code has it: the product is the <manufacturer>_product field
\* when the record has one, empty or not, and the decoded product otherwise;
\* the table's name for that value, when it has one, then replaces it.
C28_TableAppliedLast ==
    DerivedStatus =>
        d_status.product =
            TableName(IF ExtraProductGiven THEN ExtraProductText
                      ELSE PyStr(d_record.product))

C28_Witness ==
    /\ DerivedStatus
    /\ d_record.manufacturer = "garmin"
    /\ d_record.extra_product = <<IntVal(3592)>>
    /\ d_record.product = IntVal(7)
    /\ d_status.product = "varia rtl516"

C28_WitnessNamedExtra ==
    /\ DerivedStatus
    /\ d_record.extra_product = <<StrVal("bsm")>>
    /\ d_record.product = IntVal(3592)
    /\ d_status.product = "bsm"

\* ---- C25: validate_activity_messages ----------------------------------------
Validated == f_pc \in {"constructed", "raised", "derived"}

GroupThere(i) ==
    f_messages[RequiredGroups[i]].present /\ f_messages[RequiredGroups[i]].msgs # <<>>

ActivityFile ==
    /\ \A i \in 1..Len(RequiredGroups) : GroupThere(i)
    /\ Len(f_messages["file_id_mesgs"].msgs) = 1
    /\ f_messages["file_id_mesgs"].msgs[1].type = <<"activity">>

\* C25: validate_activity_messages succeeds exactly when the five required
\* groups are present and non-empty, file_id has one message and its type is
\* "activity"; in every other case it raises InvalidActivityFileError, naming
\* the first missing group in the order file_id, activity, session, lap, record.
C25_ValidOrInvalidActivityFile ==
    Validated =>
        /\ f_error = Returned <=> ActivityFile
        /\ ~ActivityFile => f_error.raises = "InvalidActivityFileError"
        /\ \A i \in 1..Len(RequiredGroups) :
              ~GroupThere(i) /\ (\A j \in 1..(i - 1) : GroupThere(j)) =>
                  f_error.text = "Missing " \o RequiredGroups[i] \o " message"

\* ---- C26, C27: get_devices_status --------------------------------------------
WithStatus(i) ==
    /\ i \in DOMAIN f_device_info
    /\ f_device_info[i].battery_status \notin {Absent, <<"">>}

IndexesWithStatus == {f_device_info[i].device_index : i \in {k \in DOMAIN f_device_info : WithStatus(k)}}

\* C26: get_devices_status leaves out the records without a battery status
\* and produces a DeviceStatus for every other record: the output has exactly
\* one entry per distinct device_index among the records with a status.
C26_OneEntryPerIndex ==
    f_pc = "derived" =>
        /\ f_result.raises = ""
        /\ {f_result.list[p].device_index : p \in DOMAIN f_result.list} = IndexesWithStatus
        /\ Len(f_result.list) = Cardinality(IndexesWithStatus)

\* The first and the last record with a status that has device_index idx.
FirstWith(idx) ==
    CHOOSE i \in DOMAIN f_device_info :
        /\ WithStatus(i) /\ f_device_info[i].device_index = idx
        /\ \A j \in 1..(i - 1) : ~(WithStatus(j) /\ f_device_info[j].device_index = idx)

LastWith(idx) ==
    CHOOSE i \in DOMAIN f_device_info :
        /\ WithStatus(i) /\ f_device_info[i].device_index = idx
        /\ \A j \in (i + 1)..Len(f_device_info) :
              ~(WithStatus(j) /\ f_device_info[j].device_index = idx)

\* C27: in the list get_devices_status returns, the entry of a device_index
\* stands where the first record with that index puts it among the distinct
\* indices, and has the field values of the last record with that index.
C27_FirstPositionLastValues ==
    f_pc = "derived" /\ f_result.raises = "" =>
        \A p \in DOMAIN f_result.list :
            LET idx == f_result.list[p].device_index IN
            /\ idx \in IndexesWithStatus
            /\ p = Cardinality({other \in IndexesWithStatus :
                                   FirstWith(other) <= FirstWith(idx)})
            /\ f_result.list[p].battery_status =
                   f_device_info[LastWith(idx)].battery_status[1]

C27_Witness ==
    /\ f_pc = "derived"
    /\ Len(f_device_info) = 3
    /\ f_device_info[1].device_index = 1 /\ f_device_info[1].battery_status = <<"ok">>
    /\ f_device_info[2].device_index = 0 /\ f_device_info[2].battery_status = <<"ok">>
    /\ f_device_info[3].device_index = 1 /\ f_device_info[3].battery_status = <<"low">>
    /\ f_result = ListResult(<<[device_index |-> 1, battery_status |-> "low"],
                               [device_index |-> 0, battery_status |-> "ok"]>>)

\* ---- C29: source resolution ---------------------------------------------------
Resolved == s_pc # "idle"

Accepts(i) ==
    \/ s_uri.scheme = s_sources[i].uri_scheme
    \/ s_uri.hostname \in s_sources[i].http_hosts

FirstAccepting ==
    IF \E i \in DOMAIN s_sources : Accepts(i)
    THEN /\ s_resolved \in DOMAIN s_sources
         /\ Accepts(s_resolved)
         /\ \A j \in 1..(s_resolved - 1) : ~Accepts(j)
    ELSE s_resolved = 0

NativeScheme == \E i \in DOMAIN s_sources : s_uri.scheme = s_sources[i].uri_scheme

WebUrl == s_uri.scheme \in {"https", "http"}

HostKnown == \E i \in DOMAIN s_sources : s_uri.hostname \in s_sources[i].http_hosts

WebUrlByHost ==
    WebUrl =>
        IF HostKnown
        THEN s_resolved # 0 /\ s_uri.hostname \in s_sources[s_resolved].http_hosts
        ELSE s_resolved = 0

\* C29: resolution returns the first source in registration order that
\* matches (none if no source does); a URI with a provider's native scheme
\* resolves to that provider even when a provider matching by web host is
\* registered, and a web URL to the provider whose host set has its host.
C29_NativeSchemeWins ==
    Resolved =>
        /\ FirstAccepting
        /\ NativeScheme =>
              s_resolved # 0 /\ s_sources[s_resolved].uri_scheme = s_uri.scheme
        /\ WebUrlByHost

\* C29 as the code has it: the first matching source wins, so a URI with a
\* provider's native scheme resolves to that provider unless a source
\* registered before it has the URI's host in its host set.
C29_FirstMatchWins ==
    Resolved =>
        /\ FirstAccepting
        /\ NativeScheme =>
              /\ s_resolved # 0
              /\ \/ s_sources[s_resolved].uri_scheme = s_uri.scheme
                 \/ /\ s_uri.hostname \in s_sources[s_resolved].http_hosts
                    /\ \A j \in 1..s_resolved : s_sources[j].uri_scheme # s_uri.scheme
        /\ NativeScheme /\ ~HostKnown =>
              s_sources[s_resolved].uri_scheme = s_uri.scheme
        /\ WebUrlByHost

C29_Witness ==
    /\ Resolved
    /\ s_sources = <<FileSource, GarminSource, StravaSource>>
    /\ s_uri = [scheme |-> "strava", hostname |-> "7", path |-> ""]
    /\ s_resolved = 3

C29_WitnessWebUrl ==
    /\ Resolved
    /\ s_sources = <<FileSource, GarminSource, StravaSource>>
    /\ s_uri = [scheme |-> "https", hostname |-> "connect.garmin.com", path |-> "/activities/7"]
    /\ s_resolved = 2

\* ---- C30: the downstream sources of StravaSource.read_activity -----------------
\* The classes of the sources registered before the StravaSource, in order.
OtherSources ==
    [i \in 1..(s_resolved - 1) |-> s_sources[i].class]

IsPrefix(a, b) == Len(a) <= Len(b) /\ \A i \in DOMAIN a : a[i] = b[i]

\* C30: StravaSource.read_activity calls find_activity only on the other
\* registered sources, never on itself, in registration order; it stops at the
\* first that returns a reference and returns the bytes read through it.
C30_OnlyOtherSourcesInOrder ==
    s_pc \in {"finding", "reading", "done"} =>
        /\ IsPrefix(s_finds, OtherSources)
        /\ \A i \in DOMAIN s_finds : s_finds[i] # "StravaSource"
        /\ Len(s_reads) <= 1
        /\ s_reads # <<>> => s_reads[1] = s_finds[Len(s_finds)]
        /\ s_result.raises = "" => s_reads # <<>> /\ s_result.from = Len(s_finds)

\* ---- C31: the tolerances of find_activity ------------------------------------
FindReturned == g_pc = "returned"

Fits(i) ==
    /\ g_listing[i].duration - g_target.elapsed_time_in_s \in -60..60
    /\ g_listing[i].distance - g_target.distance_in_m \in -100..100

\* C31: find_activity returns the first listed activity whose elapsed time is
\* at most 60 s and whose distance is at most 100 m off the target, both
\* bounds included, and nothing when no listed activity fits.
C31_FirstWithinTolerance ==
    FindReturned =>
        IF \E i \in DOMAIN g_listing : Fits(i)
        THEN /\ g_result \in DOMAIN g_listing
             /\ Fits(g_result)
             /\ \A j \in 1..(g_result - 1) : ~Fits(j)
        ELSE g_result = 0

C31_Witness ==
    /\ FindReturned
    /\ Len(g_listing) = 2
    /\ g_listing[1].duration = 3530 /\ g_listing[1].distance = 50050
    /\ g_listing[2].duration = 3540 /\ g_listing[2].distance = 49900
    /\ g_result = 2

\* ---- C32: the day of the activity returned -------------------------------------
\* C32: every activity find_activity returns started on the target's calendar
\* day.
C32_SameCalendarDay ==
    FindReturned /\ g_result # 0 => g_listing[g_result].day = g_target.date

\* ---- C33: the lifecycle of WebhookServer ---------------------------------------
LastCall == w_history[Len(w_history)]

\* C33: server and thread are set together; start on a running server raises
\* RuntimeError and leaves it running; stop on a stopped server does nothing;
\* after stop or __exit__ both are None, and a later start is accepted.
C33_TwoStateLifecycle ==
    /\ w_server = w_thread
    /\ w_history # <<>> =>
        /\ LastCall.op \in {"start", "__enter__"} /\ LastCall.running =>
              LastCall.result = "RuntimeError" /\ w_server
        /\ LastCall.op \in {"start", "__enter__"} /\ ~LastCall.running =>
              /\ LastCall.result # "RuntimeError"
              /\ w_server <=> LastCall.result = "started"
        /\ LastCall.op \in {"stop", "__exit__"} =>
              /\ ~w_server /\ ~w_thread
              /\ LastCall.result = IF LastCall.running THEN "stopped" ELSE "nothing"
    /\ \A i \in DOMAIN w_history :
          w_history[i].running <=>
              \E j \in 1..(i - 1) :
                  /\ w_history[j].result = "started"
                  /\ \A k \in (j + 1)..(i - 1) : w_history[k].result # "stopped"

C33_Witness ==
    /\ Len(w_history) = 4
    /\ w_history[1].result = "started"
    /\ w_history[2].op = "start" /\ w_history[2].result = "RuntimeError"
    /\ w_history[3].op = "stop" /\ w_history[3].result = "stopped"
    /\ w_history[4].op = "start" /\ w_history[4].result = "started"
    /\ w_server /\ w_thread

\* ---- C34: the run started by handle_event ------------------------------------
Delivered == e_delivery # NoDelivery

CreateDelivery ==
    /\ Delivered
    /\ e_delivery.payload.aspect_type = "create"
    /\ e_delivery.payload.object_type = "activity"
    /\ e_delivery.payload.object_id \notin {None, 0}

\* C34: every activity-create delivery with a non-zero object id that reaches
\* handle_event starts a run that reads the activity through the Strava
\* source of the source registry.
C34_CreateReadsThroughStrava ==
    CreateDelivery /\ p_run.impl = "webhook_server" /\ p_run.resolved =>
        /\ Len(p_reads) = 1
        /\ p_run.sources[p_reads[1].source].class = "StravaSource"

\* ---- C35: deliveries without a valid signature -------------------------------
\* C35: a POST delivery that does not carry a valid HMAC signature of its body
\* is answered 403 and starts no processing.
C35_UnsignedRefused ==
    Delivered /\ e_delivery.signature # "valid" =>
        /\ e_response.status = "403"
        /\ p_run = NoRun

\* ---- C36: the challenge is echoed only for a known token ---------------------
\* C36: verify_subscription echoes the challenge only for a request whose
\* hub.verify_token equals a token that was configured or generated; a request
\* without a verify token is never answered with the challenge.
C36_ChallengeOnlyWithToken ==
    Replied /\ a_reply.kind = "challenge" =>
        /\ a_reply.req.token # Absent
        /\ \/ a_reply.req.token = <<"env">> /\ env_verify_token = <<"env">>
           \/ a_reply.req.token = <<"generated">> /\ verify_token = "generated"

\* C37 -- over every interleaving of ensure_subscription and delete_subscription
\* calls, a create request is in flight (or waiting to be sent again) only while
\* the cache is empty and the list request of the same lock hold found no
\* subscription with the callback URL, and the provider never holds two
\* subscriptions with the callback URL.
CreatePending(c) == call[c].pc \in {"create", "create_sleep"}

ForCallback == {i \in DOMAIN provider_subs : provider_subs[i].callback_url = callback_url}

C37_NeverTwoForCallback ==
    /\ \A c \in Calls : CreatePending(c) =>
          /\ subscription_id = None
          /\ call[c].listed
          /\ call[c].matchId = None
    /\ Cardinality(ForCallback) <= 1

\* The same with the provider's ids restricted to the non-zero ones.
C37_NonZeroIds ==
    (\A i \in DOMAIN provider_subs : provider_subs[i].id # 0) => C37_NeverTwoForCallback

\* C38 -- the subscription id reported by /healthz is the cached one: the id
\* ensure_subscription cached once it has succeeded, none before that and after
\* delete_subscription.
C38_HealthReportsCache ==
    Replied /\ a_reply.kind = "health" => a_reply.subscription_id = subscription_id

\* /healthz sends no provider request and leaves the manager as it is.
C38_HealthChangesNothing ==
    [][a_reply' # a_reply /\ a_reply'.kind = "health" => UNCHANGED mgr_vars]_vars

\* C39 -- once read_activity of the source that accepted the URI has run, the
\* URI was one it gets an activity identifier out of: no URI that matches_uri
\* accepts is rejected as invalid by the same source.
ReadRan == s_pc \in {"finding", "reading", "done"} /\ s_resolved # 0

C39_AcceptedUriIsRead ==
    ReadRan => /\ MatchesUri(s_sources[s_resolved], s_uri)
               /\ UriParses(s_sources[s_resolved], s_uri)

\* C40 -- a record with all required fields and no extra field at all, once
\* handed to model_validate, is derived: its device_type is the decoded one and
\* its product the table name of the decoded product, or the decoded product.
RecordValidated == d_pc # "idle"

NoExtraAtAll ==
    /\ d_record.complete
    /\ d_record.extra_product = Absent
    /\ d_record.extra_device_type = Absent
    /\ ~d_record.other_extra

C40_NoExtraStillDerived ==
    RecordValidated /\ NoExtraAtAll =>
        /\ d_pc # "invalid"
        /\ d_status # NoStatus
        /\ d_status.device_type = d_record.device_type
        /\ d_status.product = TableName(PyStr(d_record.product))

=============================================================================
